---- MODULE Spec2Model ----
(***************************************************************************)
(* Pagination and layout of the inspection-report PDF generators:          *)
(*   - the TREC-prefixed generator (generatePdf.js: ensureSpace, the       *)
(*     comment renderer with its photo grid, createPdf and its footer      *)
(*     pass),                                                              *)
(*   - the two-pass report (generate-complete-report.js with               *)
(*     create-table-of-contents.js),                                       *)
(*   - the text wrapper (sanitizeText / wrapText).                         *)
(* Lengths are kept in hundredths of a PDF point, so that the default      *)
(* page size of pdf-lib (595.28 x 841.89) is exact.                        *)
(***************************************************************************)
EXTENDS Integers, Sequences, FiniteSets, TLC

\* ------------------------------------------------------------------ bounds
\* createPdf: nodes of the input tree (sections, line items and comments
\* together), wrapped lines of a comment body, photos of a comment
MaxItems == 5
MaxLines == 1
MaxPhotos == 4
MaxHeaderPages == 1
MaxHarnessPages == 3

\* ------------------------------------------------- constants of the source
FOOTER_BUFFER == 100
MINIMUM_SPACE_NEEDED == 50
ROW_SPACING_DEFAULT == 24
GRID_COLUMNS_DEFAULT == 3
GRID_GUTTER == 12
GRID_MAX_CELL_HEIGHT == 240
RIGHT_MARGIN == 20
lineItemContentStartX == 130
\* pdfDoc.addPage() without a size: pdf-lib's default page, in hundredths
A4Width == 59528
A4Height == 84189

\* n points, in hundredths of a point
Pt(n) == n * 100

Min2(a, b) == IF a <= b THEN a ELSE b
Max2(a, b) == IF a >= b THEN a ELSE b

RECURSIVE MaxOfSeq(_)
MaxOfSeq(s) == IF s = <<>> THEN 0 ELSE Max2(Head(s), MaxOfSeq(Tail(s)))

\* addPageTemplate: returns height - 120, the Y where free content begins
addPageTemplate(height) == height - Pt(120)

ContentStartY == addPageTemplate(A4Height)

\* the largest block that fits a fresh page above the footer buffer
UsableHeight == ContentStartY - Pt(FOOTER_BUFFER)

VARIABLES
  pc,            \* position in createPdf (or "harness" / "idle")
  posY,          \* pos.y
  numPages,      \* pdfDoc.getPageCount()
  currentPage,   \* 1-based index of currentPage in the document
  headerPages,   \* number of prepended TREC header pages
  templated,     \* pages on which addPageTemplate has drawn
  itemCount,     \* sections, line items and comments of the input taken up
  commentsLeft,  \* comments of commentsToUse still to render
  isDefault,     \* commentsToUse is defaultComments
  linesLeft,     \* wrapped body lines still to draw
  imagesLeft,    \* embedded images still to place
  columns,       \* grid columns of the current comment
  hasPhotos,     \* comment.photos is a non-empty array
  lastEnsure,    \* what the last ensureSpace call saw and did
  lastDraws,     \* draw operations of the last step: [kind, page, y]
  footerI,       \* footer loop index i
  totalPages,    \* pages.length read by the footer pass
  stamps,        \* per page, the "Page i of Y" stamps drawn on it
  response,      \* what createPdf answered
  rpc,           \* position in generateCompleteReport
  sections,      \* the input's section list
  sortedSections,\* the body pass's sortedSections
  includeTOC,    \* options.includeTOC
  doc,           \* pdfDoc: the sequence of its pages
  sectionPageMap,\* section key -> recorded starting page
  recorded,      \* per sorted section, the page number recorded for it
  ri,            \* loop index i of the running loop
  tocPages,      \* the pages of the table of contents, copied into pdfDoc
  tocPrinted,    \* per sorted section, the page number its TOC entry shows
  result,        \* what generateCompleteReport returned
  wpc,           \* position in wrapText
  wText,         \* the text given to wrapText
  wMaxWidth,     \* maxWidth
  wWords,        \* cleanText.split(" ")
  wIdx,          \* words consumed by the loop
  currentLine,   \* currentLine
  lines,         \* lines
  gpc,           \* position in the photo part of addCommentsToLineItem
  photoCount,    \* photos.length
  fetched,       \* per photo gone through, what fetchAndEmbedImage gave
  embedded,      \* embedded: [k, img, caption], k the photo's input index
  gridI,         \* the grid loop's i
  placements,    \* the images drawn: [k, img, row, col, x, w, h, page, y]
  bpc,           \* position in addCheckBoxToLineItem
  lineItem,      \* the line item: isDeficient, inspectionStatus
  boxIdx,        \* index of checkboxTypes.forEach
  createdBoxes,  \* the types of the check boxes created, in order
  checkedBoxes,  \* the types of the check boxes checked
  cpc,           \* position in the comment loop of generateSectionPage
  comment,       \* the comment
  cStartY,       \* currentY when the comment was reached
  curY,          \* currentY
  cPages,        \* pages of the section so far
  cDraws,        \* items drawn since the comment was reached
  cLines,        \* wrapped lines of the comment text still to draw
  ppc,           \* position in preload and layout of generateCompleteReport
  refUrls,       \* the image URLs the document refers to, in layout order
  imageCache,    \* the keys of imageCache
  requests,      \* per URL, the state of its preload download
  layoutIdx,     \* image references layout has gone through
  layoutHttp,    \* HTTP requests started by layout
  cacheAtLayout, \* the keys of imageCache when preloadAllImages returned
  request,       \* the request createPdf is run on, with its image outcomes
  run,           \* 1 in the first createPdf call on the request, 2 in the second
  secIdx,        \* sections taken up by the section loop
  itemIdx,       \* line items of the section taken up
  comIdx,        \* comments of commentsToUse taken up
  rowI,          \* the grid loop's i in the comment
  layoutLog,     \* the blocks drawn by this call, in order: [kind, page, y]
  firstLog,      \* the blocks drawn by the first call
  firstPages,    \* the page count of the first call's document
  spc,           \* position in generateSectionPage and the report around it
  secComment,    \* the comment: text lines, photos, videos
  secIncludeTOC, \* options.includeTOC
  secCount,      \* the number of sections of the report
  secPages,      \* the pages appended to pdfDoc after the cover, in order
  secPage,       \* the index in secPages of generateSectionPage's page
  pageNumber,    \* generateSectionPage's pageNumber
  currentY,      \* generateSectionPage's currentY
  secLines,      \* wrapped lines of the comment text still to draw
  textStartY,    \* textStartY
  textStartPage, \* the page that was current when textStartY was taken
  mediaI,        \* the media loop's i
  gridCol,       \* col
  rowStartY,     \* rowStartY
  maxRowHeight,  \* maxRowHeight
  gridRowNo,     \* rows the grid has completed
  mediaDrawn,    \* the media drawn: [i, kind, page, top, h, row]
  gridBreaks,    \* col at each createNewPage call of the grid
  finalDoc,      \* the pages of the saved document
  fpc,           \* position in createPdf's check box creation
  idTree,        \* per section, the ids of its line items
  fSec,          \* index of the section loop
  fItem,         \* index of the line item loop
  fType,         \* index of checkboxTypes.forEach
  fieldNames,    \* the names of the form fields created, in order
  fResponse,     \* what generatePdf answered
  hpc,           \* position in generateCompleteReport and its caller
  hCaller,       \* the caller: the route handler or the command line
  hSections,     \* sections.length
  hIncludeTOC,   \* options.includeTOC
  hOutputPath,   \* outputPath
  hI,            \* sections rendered
  hThrown,       \* the step that threw, if any
  hResponse,     \* what the caller answered
  epc,           \* position of the request of fetchAndEmbedImage
  eUrl,          \* the url: whether http.get accepts it, and its extension
  eDecodes,      \* which of embedJpg / embedPng accept the bytes
  eStatus,       \* res.statusCode
  eChunks,       \* chunks.length
  eError,        \* the error the connection ended with, if any
  ePromise,      \* the promise fetchAndEmbedImage returned
  romPc,         \* position of the caller of intToRoman
  romCaller,       \* a call of its own, or the section loop of createPdf
  romNum,          \* num, the argument of the last call
  romRes,          \* the numeral the last call returned
  romSections,     \* sections.length
  romIdx,          \* sectionIdx
  romName,         \* section.name of the section labelled last
  romLabel         \* the text of the section header drawn last

trecVars == << pc, posY, numPages, currentPage, headerPages, templated,
               itemCount, commentsLeft, isDefault,
               linesLeft, imagesLeft, columns, hasPhotos, lastEnsure,
               lastDraws, footerI, totalPages, stamps, response >>

reportVars == << rpc, sections, sortedSections, includeTOC, doc, sectionPageMap, recorded, ri,
                 tocPages, tocPrinted, result >>

wrapVars == << wpc, wText, wMaxWidth, wWords, wIdx, currentLine, lines >>

gridVars == << gpc, photoCount, fetched, embedded, gridI, placements >>

boxVars == << bpc, lineItem, boxIdx, createdBoxes, checkedBoxes >>

commentVars == << cpc, comment, cStartY, curY, cPages, cDraws, cLines >>

preloadVars == << ppc, refUrls, imageCache, requests, layoutIdx, layoutHttp,
                  cacheAtLayout >>

twiceVars == << request, run, secIdx, itemIdx, comIdx, rowI, layoutLog,
                firstLog, firstPages >>

secVars == << spc, secComment, secIncludeTOC, secCount, secPages, secPage,
              pageNumber, currentY, secLines, textStartY, textStartPage,
              mediaI, gridCol, rowStartY, maxRowHeight, gridRowNo, mediaDrawn,
              gridBreaks, finalDoc >>

fieldVars == << fpc, idTree, fSec, fItem, fType, fieldNames, fResponse >>

handlerVars == << hpc, hCaller, hSections, hIncludeTOC, hOutputPath, hI,
                  hThrown, hResponse >>

fetchVars == << epc, eUrl, eDecodes, eStatus, eChunks, eError, ePromise >>

romanVars == << romPc, romCaller, romNum, romRes, romSections, romIdx, romName,
               romLabel >>

extVars == << gridVars, boxVars, commentVars, preloadVars, twiceVars,
              secVars, fieldVars, handlerVars, fetchVars, romanVars >>

vars == << trecVars, reportVars, wrapVars, extVars >>

\* a step of one program leaves the state of the others alone
TrecOnly == UNCHANGED << reportVars, wrapVars, extVars >>
ReportOnly == UNCHANGED << trecVars, wrapVars, extVars >>
WrapOnly == UNCHANGED << trecVars, reportVars, extVars >>

\* an object without properties
EmptyMap == [k \in {} |-> 0]

\* the state of a program that is not running
ReportIdle ==
  /\ rpc = "idle"
  /\ sections = <<>>
  /\ sortedSections = <<>>
  /\ includeTOC = FALSE
  /\ doc = <<>>
  /\ sectionPageMap = EmptyMap
  /\ recorded = <<>>
  /\ ri = 0
  /\ tocPages = <<>>
  /\ tocPrinted = <<>>
  /\ result = "none"

WrapIdle ==
  /\ wpc = "idle"
  /\ wText = <<>>
  /\ wMaxWidth = 0
  /\ wWords = <<>>
  /\ wIdx = 0
  /\ currentLine = <<>>
  /\ lines = <<>>

GridIdle ==
  /\ gpc = "idle"
  /\ photoCount = 0
  /\ fetched = <<>>
  /\ embedded = <<>>
  /\ gridI = 0
  /\ placements = <<>>

BoxIdle ==
  /\ bpc = "idle"
  /\ lineItem = [isDeficient |-> "undefined", inspectionStatus |-> "undefined"]
  /\ boxIdx = 0
  /\ createdBoxes = <<>>
  /\ checkedBoxes = {}

CommentIdle ==
  /\ cpc = "idle"
  /\ comment = [text |-> "", location |-> "undefined", tag |-> "",
                photos |-> 0, videos |-> 0, recommendation |-> "",
                selectedOptions |-> 0, label |-> ""]
  /\ cStartY = 0
  /\ curY = 0
  /\ cPages = 0
  /\ cDraws = 0
  /\ cLines = 0

PreloadIdle ==
  /\ ppc = "idle"
  /\ refUrls = <<>>
  /\ imageCache = {}
  /\ requests = <<>>
  /\ layoutIdx = 0
  /\ layoutHttp = 0
  /\ cacheAtLayout = {}

TwiceIdle ==
  /\ request = [sections |-> <<>>, headerPages |-> 0, defaultLines |-> <<>>]
  /\ run = 0
  /\ secIdx = 0
  /\ itemIdx = 0
  /\ comIdx = 0
  /\ rowI = 0
  /\ layoutLog = <<>>
  /\ firstLog = <<>>
  /\ firstPages = 0

SecIdle ==
  /\ spc = "idle"
  /\ secComment = [lines |-> 0, photos |-> <<>>, videos |-> 0]
  /\ secIncludeTOC = FALSE
  /\ secCount = 0
  /\ secPages = <<>>
  /\ secPage = 0
  /\ pageNumber = 0
  /\ currentY = 0
  /\ secLines = 0
  /\ textStartY = 0
  /\ textStartPage = 0
  /\ mediaI = 0
  /\ gridCol = 0
  /\ rowStartY = 0
  /\ maxRowHeight = 0
  /\ gridRowNo = 0
  /\ mediaDrawn = <<>>
  /\ gridBreaks = <<>>
  /\ finalDoc = <<>>

FieldIdle ==
  /\ fpc = "idle"
  /\ idTree = <<>>
  /\ fSec = 0
  /\ fItem = 0
  /\ fType = 0
  /\ fieldNames = <<>>
  /\ fResponse = "none"

HandlerIdle ==
  /\ hpc = "idle"
  /\ hCaller = "none"
  /\ hSections = 0
  /\ hIncludeTOC = FALSE
  /\ hOutputPath = "undefined"
  /\ hI = 0
  /\ hThrown = "none"
  /\ hResponse = "none"

FetchIdle ==
  /\ epc = "idle"
  /\ eUrl = [ valid |-> FALSE, ext |-> "none" ]
  /\ eDecodes = [ jpg |-> FALSE, png |-> FALSE ]
  /\ eStatus = 0
  /\ eChunks = 0
  /\ eError = "none"
  /\ ePromise = "none"

RomanIdle ==
  /\ romPc = "idle"
  /\ romCaller = "none"
  /\ romNum = [ kind |-> "finite", halves |-> 0 ]
  /\ romRes = <<>>
  /\ romSections = 0
  /\ romIdx = 0
  /\ romName = <<>>
  /\ romLabel = <<>>

ExtIdle ==
  /\ GridIdle /\ BoxIdle /\ CommentIdle /\ PreloadIdle /\ TwiceIdle
  /\ SecIdle /\ FieldIdle /\ HandlerIdle /\ FetchIdle /\ RomanIdle

\* a step of one of these leaves the others alone
GridOnly ==
  UNCHANGED << reportVars, wrapVars, boxVars, commentVars, preloadVars,
               twiceVars, secVars, fieldVars, handlerVars, fetchVars,
               romanVars >>
BoxOnly ==
  UNCHANGED << trecVars, reportVars, wrapVars, gridVars, commentVars,
               preloadVars, twiceVars, secVars, fieldVars, handlerVars, fetchVars,
               romanVars >>
CommentOnly ==
  UNCHANGED << trecVars, reportVars, wrapVars, gridVars, boxVars,
               preloadVars, twiceVars, secVars, fieldVars, handlerVars, fetchVars,
               romanVars >>
PreloadOnly ==
  UNCHANGED << trecVars, reportVars, wrapVars, gridVars, boxVars,
               commentVars, twiceVars, secVars, fieldVars, handlerVars, fetchVars,
               romanVars >>
TwiceOnly ==
  UNCHANGED << reportVars, wrapVars, gridVars, boxVars, commentVars,
               preloadVars, secVars, fieldVars, handlerVars, fetchVars,
               romanVars >>
SecOnly ==
  UNCHANGED << trecVars, reportVars, wrapVars, gridVars, boxVars,
               commentVars, preloadVars, twiceVars, fieldVars, handlerVars, fetchVars,
               romanVars >>
FieldOnly ==
  UNCHANGED << trecVars, reportVars, wrapVars, gridVars, boxVars,
               commentVars, preloadVars, twiceVars, secVars, handlerVars, fetchVars,
               romanVars >>
FetchOnly ==
  UNCHANGED << trecVars, reportVars, wrapVars, gridVars, boxVars,
               commentVars, preloadVars, twiceVars, secVars, fieldVars,
               handlerVars,
               romanVars >>
RomanOnly ==
  UNCHANGED << trecVars, reportVars, wrapVars, gridVars, boxVars,
               commentVars, preloadVars, twiceVars, secVars, fieldVars,
               handlerVars, fetchVars >>
HandlerOnly ==
  UNCHANGED << trecVars, reportVars, wrapVars, gridVars, boxVars,
               commentVars, preloadVars, twiceVars, secVars, fieldVars, fetchVars,
               romanVars >>

NoEnsure == [called |-> FALSE, needed |-> 0, yBefore |-> 0, yAfter |-> 0,
             pagesBefore |-> 0, pagesAfter |-> 0,
             curBefore |-> 0, curAfter |-> 0]

\* createPdf is not running
TrecIdle ==
  /\ pc = "idle"
  /\ posY = 0
  /\ numPages = 0
  /\ currentPage = 0
  /\ headerPages = 0
  /\ templated = {}
  /\ itemCount = 0
  /\ commentsLeft = 0
  /\ isDefault = FALSE
  /\ linesLeft = 0
  /\ imagesLeft = 0
  /\ columns = 0
  /\ hasPhotos = FALSE
  /\ lastEnsure = NoEnsure
  /\ lastDraws = {}
  /\ footerI = 0
  /\ totalPages = 0
  /\ stamps = <<>>
  /\ response = "none"

\* ------------------------------------------------------------ ensureSpace
\* checkAndCreateNewPage: a new page when forced or when pos.y is too low
checkAndCreateNewPage(y, forceNewPage) ==
  forceNewPage \/ y < Pt(MINIMUM_SPACE_NEEDED)

\* ensureSpace calling checkAndCreateNewPage without forceNewPage
NeedsNewPage_NoForce(y, neededHeight) ==
  /\ y - neededHeight < Pt(FOOTER_BUFFER)
  /\ checkAndCreateNewPage(y, FALSE)

\* ensureSpace comparing the cursor alone with the buffer
NeedsNewPage_IgnoresHeight(y, neededHeight) ==
  /\ y < Pt(FOOTER_BUFFER)
  /\ checkAndCreateNewPage(y, TRUE)

\* the condition of ensureSpace under which a page is added
NeedsNewPage(y, neededHeight) ==
  /\ y - neededHeight < Pt(FOOTER_BUFFER)
  /\ checkAndCreateNewPage(y, TRUE)

\* pos.y right after ensureSpace(neededHeight) called with pos.y = y
YAfterEnsure(y, neededHeight) ==
  IF NeedsNewPage(y, neededHeight) THEN addPageTemplate(A4Height) ELSE y

\* the page the caller draws on after that call
PageAfterEnsure(y, neededHeight) ==
  IF NeedsNewPage(y, neededHeight) THEN numPages + 1 ELSE currentPage

\* ensureSpace as a step on the document and the current page, called with
\* pos.y = y; the caller sets pos.y from YAfterEnsure
EnsureSpace(y, neededHeight) ==
  LET new == NeedsNewPage(y, neededHeight)
      n2  == IF new THEN numPages + 1 ELSE numPages
  IN  /\ numPages' = n2
      /\ currentPage' = PageAfterEnsure(y, neededHeight)
      /\ templated' = IF new THEN templated \cup {numPages + 1} ELSE templated
      /\ lastEnsure' = [called |-> TRUE, needed |-> neededHeight,
                        yBefore |-> y,
                        yAfter |-> YAfterEnsure(y, neededHeight),
                        pagesBefore |-> numPages, pagesAfter |-> n2,
                        curBefore |-> currentPage,
                        curAfter |-> PageAfterEnsure(y, neededHeight)]

Draw(kind, page, y) == [kind |-> kind, page |-> page, y |-> y]

\* ------------------------------------------------------------- photo grid
\* native pixel sizes <<width, height>> of the images a photo may decode to
ImgSizes == { <<1200, 800>>, <<100, 60>> }

\* cellW = floor((availW - (columns - 1) * GRID_GUTTER) / columns), in points
CellW(cols) ==
  LET availW == A4Width - Pt(lineItemContentStartX) - Pt(RIGHT_MARGIN)
  IN  ((availW - (cols - 1) * Pt(GRID_GUTTER)) \div cols) \div 100

\* s = min(cellW / w, GRID_MAX_CELL_HEIGHT / h, 1) as a fraction <<num, den>>
Scale(img, cellW) ==
  LET w == img[1]
      h == img[2]
  IN  IF cellW >= w /\ GRID_MAX_CELL_HEIGHT >= h THEN <<1, 1>>
      ELSE IF cellW * h <= GRID_MAX_CELL_HEIGHT * w THEN <<cellW, w>>
      ELSE <<GRID_MAX_CELL_HEIGHT, h>>

\* w: Math.floor(item.img.width * s), in points
ScaledW(img, cellW) ==
  (img[1] * Scale(img, cellW)[1]) \div Scale(img, cellW)[2]

\* h: Math.floor(item.img.height * s), in points
ScaledH(img, cellW) ==
  (img[2] * Scale(img, cellW)[1]) \div Scale(img, cellW)[2]

\* a row of the grid: a sequence of [img, caption] items
RowsOfLength(r) == [1..r -> [img : ImgSizes, caption : BOOLEAN]]

\* captionH: 12 when some image of the row has a caption
CaptionH(row) == IF \E c \in DOMAIN row : row[c].caption THEN 12 ELSE 0

\* rowHeight = max scaled height + captionH, in points
RowHeight(row, cellW) ==
  MaxOfSeq([c \in DOMAIN row |-> ScaledH(row[c].img, cellW)]) + CaptionH(row)

\* the grid reserving the tallest image only, without caption and spacing
RowNeeded_ImageOnly(row, cellW) ==
  Pt(MaxOfSeq([c \in DOMAIN row |-> ScaledH(row[c].img, cellW)]))

\* the height the grid reserves before it draws a row
RowNeeded(row, cellW) == Pt(RowHeight(row, cellW) + ROW_SPACING_DEFAULT)

\* ensureSpace called in the cell loop, for each image's own height
RowCellPage_PerCell(y, row, cellW, needed, c) ==
  PageAfterEnsure(y, Pt(ScaledH(row[c].img, cellW) + ROW_SPACING_DEFAULT))

\* the page cell c of a row is drawn on, ensureSpace having been called
\* once, before the row, with pos.y = y and the row's needed height
RowCellPage(y, row, cellW, needed, c) == PageAfterEnsure(y, needed)

\* the draw operations of one row, its top at yTop: every image, and its
\* caption if any, 10 below the image
RowDraws(y, yTop, row, cellW, needed) ==
  { Draw("image", RowCellPage(y, row, cellW, needed, c),
         yTop - Pt(ScaledH(row[c].img, cellW))) : c \in DOMAIN row }
  \cup
  { Draw("caption", RowCellPage(y, row, cellW, needed, c),
         yTop - Pt(ScaledH(row[c].img, cellW)) - Pt(10)) :
      c \in { d \in DOMAIN row : row[d].caption } }

\* --------------------------------------------------------------- createPdf
\* what a step leaves alone
UnchangedLoop == UNCHANGED << itemCount, commentsLeft,
                              isDefault, linesLeft, imagesLeft, columns,
                              hasPhotos >>
UnchangedFooter == UNCHANGED << footerI, totalPages, stamps, response >>

\* createPdf up to the section loop: the header pages are prepended (none
\* when buildTrecHeaderPdf fails), the first body page is added and templated
CreatePdfStart ==
  /\ pc = "start"
  /\ \E h \in 0..MaxHeaderPages :
       /\ headerPages' = h
       /\ numPages' = h + 1
       /\ currentPage' = h + 1
       /\ templated' = {h + 1}
  /\ posY' = addPageTemplate(A4Height)
  /\ pc' = "sections"
  /\ UNCHANGED << lastEnsure, lastDraws >>
  /\ UnchangedLoop /\ UnchangedFooter
  /\ TrecOnly

\* one more section: ensureSpace(40), the section header, pos.y -= 30
SectionHeader ==
  /\ pc = "sections"
  /\ itemCount < MaxItems
  /\ EnsureSpace(posY, Pt(40))
  /\ lastDraws' = { Draw("sectionHeader", PageAfterEnsure(posY, Pt(40)),
                         YAfterEnsure(posY, Pt(40))) }
  /\ posY' = YAfterEnsure(posY, Pt(40)) - Pt(30)
  /\ itemCount' = itemCount + 1
  /\ pc' = "lineItems"
  /\ UNCHANGED << headerPages, commentsLeft, isDefault, linesLeft,
                  imagesLeft, columns, hasPhotos >>
  /\ UnchangedFooter
  /\ TrecOnly

\* one more line item: ensureSpace(70), the four checkboxes at pos.y, the
\* title at pos.y + 7, pos.y -= 5
LineItemHeader ==
  /\ pc = "lineItems"
  /\ itemCount < MaxItems
  /\ EnsureSpace(posY, Pt(70))
  /\ LET y == YAfterEnsure(posY, Pt(70))
         p == PageAfterEnsure(posY, Pt(70))
     IN  /\ lastDraws' = { Draw("checkbox", p, y), Draw("lineTitle", p, y + Pt(7)) }
         /\ posY' = y - Pt(5)
  /\ itemCount' = itemCount + 1
  /\ pc' = "commentsTitle"
  /\ UNCHANGED << headerPages, commentsLeft, isDefault,
                  linesLeft, imagesLeft, columns, hasPhotos >>
  /\ UnchangedFooter
  /\ TrecOnly

\* ensureSpace(32), the 'Comments:' label, pos.y -= 12, and commentsToUse:
\* the line item's n comments, or the two default comments when it has none
CommentsTitle ==
  /\ pc = "commentsTitle"
  /\ EnsureSpace(posY, Pt(32))
  /\ lastDraws' = { Draw("commentsLabel", PageAfterEnsure(posY, Pt(32)),
                         YAfterEnsure(posY, Pt(32))) }
  /\ posY' = YAfterEnsure(posY, Pt(32)) - Pt(12)
  /\ \E n \in 0..(MaxItems - itemCount) :
       /\ isDefault' = (n = 0)
       /\ commentsLeft' = IF n = 0 THEN 2 ELSE n
       /\ itemCount' = itemCount + n
  /\ pc' = "commentLabel"
  /\ UNCHANGED << headerPages, linesLeft, imagesLeft,
                  columns, hasPhotos >>
  /\ UnchangedFooter
  /\ TrecOnly

\* addCommentsToLineItem, the label: ensureSpace(12), the label, pos.y -= 12;
\* the body then wraps to some number of lines (none when the body is empty,
\* at least one for a default comment, whose content is not empty)
CommentLabel ==
  /\ pc = "commentLabel"
  /\ commentsLeft > 0
  /\ EnsureSpace(posY, Pt(12))
  /\ lastDraws' = { Draw("commentLabel", PageAfterEnsure(posY, Pt(12)),
                         YAfterEnsure(posY, Pt(12))) }
  /\ posY' = YAfterEnsure(posY, Pt(12)) - Pt(12)
  /\ \E n \in (IF isDefault THEN 1 ELSE 0)..MaxLines : linesLeft' = n
  /\ pc' = "body"
  /\ UNCHANGED << headerPages, itemCount, commentsLeft,
                  isDefault, imagesLeft, columns, hasPhotos >>
  /\ UnchangedFooter
  /\ TrecOnly

\* drawWrapped, one line: ensureSpace(lineH), the line, pos.y -= lineH
BodyLine ==
  /\ pc = "body"
  /\ linesLeft > 0
  /\ EnsureSpace(posY, Pt(12))
  /\ lastDraws' = { Draw("bodyLine", PageAfterEnsure(posY, Pt(12)),
                         YAfterEnsure(posY, Pt(12))) }
  /\ posY' = YAfterEnsure(posY, Pt(12)) - Pt(12)
  /\ linesLeft' = linesLeft - 1
  /\ UNCHANGED << pc, headerPages, itemCount,
                  commentsLeft, isDefault, imagesLeft, columns, hasPhotos >>
  /\ UnchangedFooter
  /\ TrecOnly

\* the photos of the comment are fetched and embedded: of n photos, e embed
\* (the others fail and are left out); columns = min(3, embedded.length)
EmbedPhotos ==
  /\ pc = "body"
  /\ linesLeft = 0
  /\ \E n \in 0..(IF isDefault THEN 0 ELSE MaxPhotos) : \E e \in 0..n :
       /\ hasPhotos' = (n > 0)
       /\ imagesLeft' = e
       /\ columns' = Min2(GRID_COLUMNS_DEFAULT, e)
  /\ lastDraws' = {}
  /\ pc' = "grid"
  /\ UNCHANGED << posY, numPages, currentPage, headerPages, templated,
                  itemCount, commentsLeft, isDefault,
                  linesLeft, lastEnsure >>
  /\ UnchangedFooter
  /\ TrecOnly

\* one row of the grid: ensureSpace(rowHeight + rowSpacing), then every image
\* of the row and its caption, then pos.y -= rowHeight + rowSpacing
PlaceRow(row, cellW, needed, yTop) ==
  /\ EnsureSpace(posY, needed)
  /\ lastDraws' = RowDraws(posY, yTop, row, cellW, needed)
  /\ posY' = yTop - needed

GridRow ==
  /\ pc = "grid"
  /\ imagesLeft > 0
  /\ \E row \in RowsOfLength(Min2(columns, imagesLeft)) :
       PlaceRow(row, CellW(columns), RowNeeded(row, CellW(columns)),
                YAfterEnsure(posY, RowNeeded(row, CellW(columns))))
  /\ imagesLeft' = imagesLeft - Min2(columns, imagesLeft)
  /\ UNCHANGED << pc, headerPages, itemCount,
                  commentsLeft, isDefault, linesLeft, columns, hasPhotos >>
  /\ UnchangedFooter
  /\ TrecOnly

\* the separator that ends a comment: pos.y -= 10, ensureSpace(1), the line,
\* pos.y -= 10; back in createPdf, pos.y -= 10 more when the comment has photos
Separator ==
  /\ pc = "grid"
  /\ imagesLeft = 0
  /\ EnsureSpace(posY - Pt(10), Pt(1))
  /\ lastDraws' = { Draw("separator", PageAfterEnsure(posY - Pt(10), Pt(1)),
                         YAfterEnsure(posY - Pt(10), Pt(1))) }
  /\ posY' = YAfterEnsure(posY - Pt(10), Pt(1)) - Pt(10)
               - (IF hasPhotos THEN Pt(10) ELSE 0)
  /\ commentsLeft' = commentsLeft - 1
  /\ hasPhotos' = FALSE
  /\ pc' = "commentLabel"
  /\ UNCHANGED << headerPages, itemCount, isDefault, linesLeft,
                  imagesLeft, columns >>
  /\ UnchangedFooter
  /\ TrecOnly

\* the comments of the line item are done: pos.y -= 10
EndLineItem ==
  /\ pc = "commentLabel"
  /\ commentsLeft = 0
  /\ posY' = posY - Pt(10)
  /\ lastDraws' = {}
  /\ pc' = "lineItems"
  /\ UNCHANGED << numPages, currentPage, headerPages, templated, lastEnsure >>
  /\ UnchangedLoop /\ UnchangedFooter
  /\ TrecOnly

\* the line items of the section are done: pos.y -= 20
EndSection ==
  /\ pc = "lineItems"
  /\ posY' = posY - Pt(20)
  /\ lastDraws' = {}
  /\ pc' = "sections"
  /\ UNCHANGED << numPages, currentPage, headerPages, templated, lastEnsure >>
  /\ UnchangedLoop /\ UnchangedFooter
  /\ TrecOnly

\* the sections are done: pages = pdfDoc.getPages(), totalPages = pages.length
BeginFooter ==
  /\ pc = "sections"
  /\ totalPages' = numPages
  /\ footerI' = 0
  /\ lastDraws' = {}
  /\ pc' = "footer"
  /\ UNCHANGED << posY, numPages, currentPage, headerPages, templated,
                  lastEnsure, stamps, response >>
  /\ UnchangedLoop
  /\ TrecOnly

\* the footer labelled with the loop index itself
FooterStamp_ZeroBased(i, total) == [page |-> i + 1, i |-> i, of |-> total]

\* the stamp the footer loop draws on pages[i]: `Page ${i + 1} of ${totalPages}`
FooterStamp(i, total) == [page |-> i + 1, i |-> i + 1, of |-> total]

\* one turn of the footer loop
StampFooter ==
  /\ pc = "footer"
  /\ footerI < totalPages
  /\ stamps' = Append(stamps, FooterStamp(footerI, totalPages))
  /\ footerI' = footerI + 1
  /\ UNCHANGED << pc, posY, numPages, currentPage, headerPages, templated,
                  lastEnsure, lastDraws, totalPages, response >>
  /\ UnchangedLoop
  /\ TrecOnly

\* the document is saved and res.json({ ok: true, ... }) sent
Finish ==
  /\ pc = "footer"
  /\ footerI >= totalPages
  /\ response' = "ok"
  /\ pc' = "done"
  /\ UNCHANGED << posY, numPages, currentPage, headerPages, templated,
                  lastEnsure, lastDraws, footerI, totalPages, stamps >>
  /\ UnchangedLoop
  /\ TrecOnly

TrecInit ==
  /\ pc = "start"
  /\ posY = 0
  /\ numPages = 0
  /\ currentPage = 0
  /\ headerPages = 0
  /\ templated = {}
  /\ itemCount = 0
  /\ commentsLeft = 0
  /\ isDefault = FALSE
  /\ linesLeft = 0
  /\ imagesLeft = 0
  /\ columns = 0
  /\ hasPhotos = FALSE
  /\ lastEnsure = NoEnsure
  /\ lastDraws = {}
  /\ footerI = 0
  /\ totalPages = 0
  /\ stamps = <<>>
  /\ response = "none"

Init == TrecInit /\ ReportIdle /\ WrapIdle /\ ExtIdle

Next ==
  \/ CreatePdfStart
  \/ SectionHeader
  \/ LineItemHeader
  \/ CommentsTitle
  \/ CommentLabel
  \/ BodyLine
  \/ EmbedPhotos
  \/ GridRow
  \/ Separator
  \/ EndLineItem
  \/ EndSection
  \/ BeginFooter
  \/ StampFooter
  \/ Finish

Spec == Init /\ [][Next]_vars

\* ------------------------------------------ ensureSpace on its own (SpecEnsure)
\* the heights the renderers ask for (1, 12, 32, 40, 70, rows of the grid up
\* to 240 + 12 + 24), and one that exceeds the usable height of a page
NeededHeights == { Pt(1), Pt(12), Pt(32), Pt(40), Pt(70), Pt(84), Pt(276),
                   UsableHeight, UsableHeight + 1, Pt(700) }

\* the amounts by which the renderers lower pos.y
Decrements == { Pt(5), Pt(10), Pt(12), Pt(20), Pt(30), Pt(276) }

\* a document with one templated page and the cursor at its content start
EnsureInit ==
  /\ pc = "harness"
  /\ posY = addPageTemplate(A4Height)
  /\ numPages = 1
  /\ currentPage = 1
  /\ headerPages = 0
  /\ templated = {1}
  /\ itemCount = 0
  /\ commentsLeft = 0
  /\ isDefault = FALSE
  /\ linesLeft = 0
  /\ imagesLeft = 0
  /\ columns = 0
  /\ hasPhotos = FALSE
  /\ lastEnsure = NoEnsure
  /\ lastDraws = {}
  /\ footerI = 0
  /\ totalPages = 0
  /\ stamps = <<>>
  /\ response = "none"
  /\ ReportIdle /\ WrapIdle /\ ExtIdle

\* a call of ensureSpace(neededHeight) at the current cursor
HarnessEnsure ==
  /\ pc = "harness"
  /\ \E needed \in NeededHeights :
       /\ NeedsNewPage(posY, needed) => numPages < MaxHarnessPages
       /\ EnsureSpace(posY, needed)
       /\ posY' = YAfterEnsure(posY, needed)
  /\ UNCHANGED << pc, headerPages, lastDraws >>
  /\ UnchangedLoop /\ UnchangedFooter
  /\ TrecOnly

\* a renderer draws and lowers the cursor
HarnessDecrement ==
  /\ pc = "harness"
  /\ \E d \in Decrements :
       /\ posY - d >= 0
       /\ posY' = posY - d
  /\ lastEnsure' = NoEnsure
  /\ UNCHANGED << pc, numPages, currentPage, headerPages, templated,
                  lastDraws >>
  /\ UnchangedLoop /\ UnchangedFooter
  /\ TrecOnly

EnsureNext == HarnessEnsure \/ HarnessDecrement

SpecEnsure == EnsureInit /\ [][EnsureNext]_vars

\* ------------------- ensureSpace of the earlier generator (SpecEnsureEarlier)
\* checkAndCreateNewPage of the earlier generator: it has no forceNewPage, a
\* page is added only when pos.y is below MINIMUM_SPACE_NEEDED
EarlierCheckAndCreateNewPage(y) == y < Pt(MINIMUM_SPACE_NEEDED)

\* the condition under which the earlier ensureSpace adds a page
EarlierNeedsNewPage(y, neededHeight) ==
  /\ y - neededHeight < Pt(FOOTER_BUFFER)
  /\ EarlierCheckAndCreateNewPage(y)

\* pos.y right after the earlier ensureSpace(neededHeight)
EarlierYAfterEnsure(y, neededHeight) ==
  IF EarlierNeedsNewPage(y, neededHeight) THEN addPageTemplate(A4Height) ELSE y

\* the earlier ensureSpace as a step on the document and the current page
EarlierEnsureSpace(y, neededHeight) ==
  LET new == EarlierNeedsNewPage(y, neededHeight)
      n2  == IF new THEN numPages + 1 ELSE numPages
      cur == IF new THEN numPages + 1 ELSE currentPage
  IN  /\ numPages' = n2
      /\ currentPage' = cur
      /\ templated' = IF new THEN templated \cup {numPages + 1} ELSE templated
      /\ lastEnsure' = [called |-> TRUE, needed |-> neededHeight,
                        yBefore |-> y,
                        yAfter |-> EarlierYAfterEnsure(y, neededHeight),
                        pagesBefore |-> numPages, pagesAfter |-> n2,
                        curBefore |-> currentPage, curAfter |-> cur]

\* a call of the earlier ensureSpace(neededHeight) at the current cursor
EarlierHarnessEnsure ==
  /\ pc = "harness"
  /\ \E needed \in NeededHeights :
       /\ EarlierNeedsNewPage(posY, needed) => numPages < MaxHarnessPages
       /\ EarlierEnsureSpace(posY, needed)
       /\ posY' = EarlierYAfterEnsure(posY, needed)
  /\ UNCHANGED << pc, headerPages, lastDraws >>
  /\ UnchangedLoop /\ UnchangedFooter
  /\ TrecOnly

EarlierEnsureNext == EarlierHarnessEnsure \/ HarnessDecrement

SpecEnsureEarlier == EnsureInit /\ [][EarlierEnsureNext]_vars

\* ------------------------------- the photos of a comment on their own (SpecGrid)
\* bound of the input: the photos of the comment
MaxGridPhotos == 4

\* native pixel sizes <<width, height>> an embedded photo may have: a large
\* landscape, a small one, a panorama, a tall one
GridImgSizes == { <<1200, 800>>, <<100, 60>>, <<4000, 900>>, <<300, 1200>> }

\* pos.y when the photos of the comment are reached
GridStartYs == { ContentStartY, Pt(300) }

\* what fetchAndEmbedImage resolves to: null, or an image (with the caption
\* the photo carries)
FetchOutcomes ==
  { [ok |-> FALSE, img |-> <<0, 0>>, caption |-> FALSE] }
  \cup [ok : {TRUE}, img : GridImgSizes, caption : BOOLEAN]

\* a photo that did not embed pushed all the same
EmbeddedAfter_PushesNull(emb, k, out) ==
  Append(emb, [k |-> k, img |-> out.img, caption |-> out.caption])

\* if (img) embedded.push({ img, caption }), for the photo of input index k
EmbeddedAfter(emb, k, out) ==
  IF out.ok
  THEN Append(emb, [k |-> k, img |-> out.img, caption |-> out.caption])
  ELSE emb

\* xCell = lineItemContentStartX + c * (cellW + GRID_GUTTER), c 0-based
XCell(c, cellW) == lineItemContentStartX + c * (cellW + GRID_GUTTER)

\* the images of a row drawn at the left edge of the first cell
XImg_NoCellOffset(c, cellW, w) == lineItemContentStartX + ((cellW - w) \div 2)

\* xImg = xCell + Math.floor((cellW - it.w) / 2)
XImg(c, cellW, w) == XCell(c, cellW) + ((cellW - w) \div 2)

\* the grid advancing by one image per row
NextGridI_ByOne(i, cols) == i + 1

\* i += columns
NextGridI(i, cols) == i + cols

\* the number of the row about to be laid out: the rows laid out so far
RowNumber(placed) ==
  IF placed = <<>> THEN 0 ELSE placed[Len(placed)].row + 1

\* what the cell loop draws for the item at column c (0-based) of a row
Placement(item, rowNo, c, cellW, page, yTop) ==
  [k |-> item.k, img |-> item.img, caption |-> item.caption,
   row |-> rowNo, col |-> c,
   x |-> XImg(c, cellW, ScaledW(item.img, cellW)),
   w |-> ScaledW(item.img, cellW), h |-> ScaledH(item.img, cellW),
   page |-> page, y |-> yTop - Pt(ScaledH(item.img, cellW))]

\* addCommentsToLineItem has drawn label and body and reaches the photos
GridInit ==
  /\ gpc = "photos"
  /\ photoCount \in 0..MaxGridPhotos
  /\ fetched = <<>>
  /\ embedded = <<>>
  /\ gridI = 0
  /\ placements = <<>>
  /\ pc = "comment"
  /\ posY \in GridStartYs
  /\ numPages = 1
  /\ currentPage = 1
  /\ headerPages = 0
  /\ templated = {1}
  /\ itemCount = 0
  /\ commentsLeft = 0
  /\ isDefault = FALSE
  /\ linesLeft = 0
  /\ imagesLeft = 0
  /\ columns = 0
  /\ hasPhotos = FALSE
  /\ lastEnsure = NoEnsure
  /\ lastDraws = {}
  /\ footerI = 0
  /\ totalPages = 0
  /\ stamps = <<>>
  /\ response = "none"

\* what the steps of the photo part leave alone
GridFrame ==
  /\ UNCHANGED << pc, headerPages, photoCount >>
  /\ UnchangedLoop /\ UnchangedFooter
  /\ GridOnly

\* one turn of 'for (const p of photos)': the photo is fetched and, when it
\* resolved to an image, pushed to embedded
EmbedPhoto ==
  /\ gpc = "photos"
  /\ Len(fetched) < photoCount
  /\ \E out \in FetchOutcomes :
       /\ fetched' = Append(fetched, out)
       /\ embedded' = EmbeddedAfter(embedded, Len(fetched), out)
  /\ UNCHANGED << gpc, gridI, placements, posY, numPages, currentPage,
                  templated, lastEnsure, lastDraws >>
  /\ GridFrame

\* one turn of 'while (i < embedded.length)': the row is sliced, scaled,
\* given room by ensureSpace and drawn; pos.y and i move on
LayoutRow ==
  /\ gpc = "photos"
  /\ Len(fetched) = photoCount
  /\ gridI < Len(embedded)
  /\ LET cols   == Min2(GRID_COLUMNS_DEFAULT, Len(embedded))
         cellW  == CellW(cols)
         row    == SubSeq(embedded, gridI + 1,
                          Min2(gridI + cols, Len(embedded)))
         needed == RowNeeded(row, cellW)
         yTop   == YAfterEnsure(posY, needed)
         page   == PageAfterEnsure(posY, needed)
     IN  /\ EnsureSpace(posY, needed)
         /\ placements' = placements \o
              [c \in 1..Len(row) |->
                 Placement(row[c], RowNumber(placements), c - 1, cellW,
                           page, yTop)]
         /\ lastDraws' = RowDraws(posY, yTop, row, cellW, needed)
         /\ posY' = yTop - needed
         /\ gridI' = NextGridI(gridI, cols)
  /\ UNCHANGED << gpc, fetched, embedded >>
  /\ GridFrame

\* the rows are done (or there were none): the separator is drawn and
\* addCommentsToLineItem returns
CommentReturn ==
  /\ gpc = "photos"
  /\ Len(fetched) = photoCount
  /\ gridI >= Len(embedded)
  /\ EnsureSpace(posY - Pt(10), Pt(1))
  /\ lastDraws' = { Draw("separator", PageAfterEnsure(posY - Pt(10), Pt(1)),
                         YAfterEnsure(posY - Pt(10), Pt(1))) }
  /\ posY' = YAfterEnsure(posY - Pt(10), Pt(1)) - Pt(10)
  /\ gpc' = "returned"
  /\ UNCHANGED << fetched, embedded, gridI, placements >>
  /\ GridFrame

GridNext == EmbedPhoto \/ LayoutRow \/ CommentReturn

InitGrid ==
  /\ GridInit /\ ReportIdle /\ WrapIdle
  /\ BoxIdle /\ CommentIdle /\ PreloadIdle /\ TwiceIdle /\ SecIdle /\ FieldIdle /\ HandlerIdle
  /\ FetchIdle /\ RomanIdle

SpecGrid == InitGrid /\ [][GridNext]_vars

\* ----------------------------------------- addCheckBoxToLineItem (SpecCheckbox)
\* const checkboxTypes = ['I', 'NI', 'NP', 'D']
checkboxTypes == << "I", "NI", "NP", "D" >>

\* the values lineItem.isDeficient and lineItem.inspectionStatus may hold;
\* "undefined" stands for an absent property
DeficientValues == { "true", "false", "undefined" }
StatusValues == { "I", "NI", "NP", "D", "undefined", "X", "i", "" }

\* the truthiness of lineItem.isDeficient
Truthy(v) == v = "true"

\* the deficiency flag not consulted for the status boxes
IsChecked_StatusAlways(item, type) ==
  \/ Truthy(item.isDeficient) /\ type = "D"
  \/ type = item.inspectionStatus

\* isChecked (generatePdf.js and worker.js compute it alike)
IsChecked(item, type) ==
  IF Truthy(item.isDeficient) /\ type = "D" THEN TRUE
  ELSE IF ~Truthy(item.isDeficient) /\ type = item.inspectionStatus THEN TRUE
  ELSE FALSE

BoxInit ==
  /\ bpc = "boxes"
  /\ lineItem \in [isDeficient : DeficientValues, inspectionStatus : StatusValues]
  /\ boxIdx = 0
  /\ createdBoxes = <<>>
  /\ checkedBoxes = {}

\* one turn of checkboxTypes.forEach: the box is created, added to the page
\* and checked when isChecked
BoxStep ==
  /\ bpc = "boxes"
  /\ boxIdx < Len(checkboxTypes)
  /\ LET type == checkboxTypes[boxIdx + 1]
     IN  /\ createdBoxes' = Append(createdBoxes, type)
         /\ checkedBoxes' = IF IsChecked(lineItem, type)
                            THEN checkedBoxes \cup {type} ELSE checkedBoxes
  /\ boxIdx' = boxIdx + 1
  /\ UNCHANGED << bpc, lineItem >>
  /\ BoxOnly

\* forEach is over: addCheckBoxToLineItem returns
BoxReturn ==
  /\ bpc = "boxes"
  /\ boxIdx >= Len(checkboxTypes)
  /\ bpc' = "done"
  /\ UNCHANGED << lineItem, boxIdx, createdBoxes, checkedBoxes >>
  /\ BoxOnly

BoxNext == BoxStep \/ BoxReturn

InitCheckbox ==
  /\ BoxInit /\ TrecIdle /\ ReportIdle /\ WrapIdle
  /\ GridIdle /\ CommentIdle /\ PreloadIdle /\ TwiceIdle /\ SecIdle /\ FieldIdle /\ HandlerIdle
  /\ FetchIdle /\ RomanIdle

SpecCheckbox == InitCheckbox /\ [][BoxNext]_vars

\* ------------------- a comment of generateSectionPage on its own (SpecComment)
\* bound: the lines a comment's header or text wraps to
MaxCommentLines == 2

\* generateSectionPage: the defaults of its options, in points
SectionMargin == 20
SectionLineHeight == 16

\* createPageHeader returns height - 60
PageHeaderY == A4Height - Pt(60)

\* the comments: per field, an empty and a non-empty value; location and
\* recommendation may also be absent or blank; photos, videos and
\* selectedOptions are given by their length
Comments ==
  [text : {"", "t"},
   location : {"undefined", "", " ", "Attic"},
   tag : {"", "REPAIR"},
   photos : 0..1,
   videos : 0..1,
   recommendation : {"", " ", "Plumber"},
   selectedOptions : 0..1,
   label : {"", "Roof"}]

\* currentY when the comment is reached: below the section and line item
\* titles of a fresh page, mid-page, and near the bottom
CommentStartYs == { PageHeaderY - Pt(84), Pt(300), Pt(165) }

\* s && s.trim() !== ""
NonBlank(s) == s \notin {"undefined", "", " "}

\* the truthiness of a string property
TruthyString(s) == s \notin {"undefined", ""}

\* hasAnyContent = hasText || hasLocation || hasSelectedOptions || hasPhotos
\*                 || hasVideos || hasRecommendation
HasAnyContent(c) ==
  \/ c.text # ""
  \/ NonBlank(c.location)
  \/ c.selectedOptions > 0
  \/ c.photos > 0
  \/ c.videos > 0
  \/ NonBlank(c.recommendation)

\* the tags drawn on the first header line: the main tag, and RECOMMENDATION
TagCount(c) ==
  (IF c.tag # "" THEN 1 ELSE 0) + (IF NonBlank(c.recommendation) THEN 1 ELSE 0)

\* createNewPage when currentY is below limit: the cursor, the page count,
\* and the drawn items (createPageHeader draws report id, page number, rule)
BreakIfBelow(y, limit) == y < Pt(limit)
YAfterBreak(y, limit) == IF BreakIfBelow(y, limit) THEN PageHeaderY ELSE y
PagesAfterBreak(y, limit, n) == IF BreakIfBelow(y, limit) THEN n + 1 ELSE n
DrawsAfterBreak(y, limit, n) == IF BreakIfBelow(y, limit) THEN n + 3 ELSE n

CommentInit ==
  /\ cpc = "test"
  /\ comment \in Comments
  /\ cStartY \in CommentStartYs
  /\ curY = cStartY
  /\ cPages = 1
  /\ cDraws = 0
  /\ cLines = 0

\* the comment has no displayable content: continue
CommentSkip ==
  /\ cpc = "test"
  /\ ~HasAnyContent(comment)
  /\ cpc' = "done"
  /\ UNCHANGED << comment, cStartY, curY, cPages, cDraws, cLines >>
  /\ CommentOnly

\* the comment is displayed: a new page below margin + 150, then the header
\* lines (the tags on the first), the location and the selected options
CommentHeader ==
  /\ cpc = "test"
  /\ HasAnyContent(comment)
  /\ \E n \in 1..MaxCommentLines :
       LET y0 == YAfterBreak(curY, SectionMargin + 150)
           d0 == DrawsAfterBreak(curY, SectionMargin + 150, cDraws)
           y1 == y0 - n * Pt(SectionLineHeight) - Pt(5) - Pt(5)
           d1 == d0 + n + TagCount(comment)
           loc == TruthyString(comment.location)
           y2 == IF loc THEN y1 - Pt(SectionLineHeight + 3) ELSE y1
           d2 == IF loc THEN d1 + 1 ELSE d1
           sel == comment.selectedOptions > 0
       IN  /\ cPages' = PagesAfterBreak(curY, SectionMargin + 150, cPages)
           /\ curY' = IF sel THEN y2 - Pt(SectionLineHeight + 3) ELSE y2
           /\ cDraws' = IF sel THEN d2 + 1 ELSE d2
  /\ \E t \in (IF comment.text = "" THEN {0} ELSE 1..MaxCommentLines) :
       cLines' = t
  /\ cpc' = "text"
  /\ UNCHANGED << comment, cStartY >>
  /\ CommentOnly

\* one wrapped line of the comment text: a new page below margin + 30, the
\* line, currentY -= lineHeight
CommentTextLine ==
  /\ cpc = "text"
  /\ cLines > 0
  /\ cPages' = PagesAfterBreak(curY, SectionMargin + 30, cPages)
  /\ cDraws' = DrawsAfterBreak(curY, SectionMargin + 30, cDraws) + 1
  /\ curY' = YAfterBreak(curY, SectionMargin + 30) - Pt(SectionLineHeight)
  /\ cLines' = cLines - 1
  /\ UNCHANGED << cpc, comment, cStartY >>
  /\ CommentOnly

\* the room the photos and videos of a comment take: none when they fail
\* to load, else a row of media and its gap
MediaRooms == { 0, Pt(175) }

\* the rest of the comment: the recommendation line, the photos and videos,
\* then currentY -= 5, a new page below margin + 20, the rule, currentY -= 20
CommentRest ==
  /\ cpc = "text"
  /\ cLines = 0
  /\ \E room \in (IF comment.photos + comment.videos > 0 THEN MediaRooms
                  ELSE {0}) :
       LET rec == NonBlank(comment.recommendation)
           y1 == IF rec THEN curY - Pt(SectionLineHeight + 3) ELSE curY
           d1 == IF rec THEN cDraws + 1 ELSE cDraws
           y2 == y1 - room
           d2 == IF room > 0 THEN d1 + 1 ELSE d1
           y3 == y2 - Pt(5)
       IN  /\ cPages' = PagesAfterBreak(y3, SectionMargin + 20, cPages)
           /\ cDraws' = DrawsAfterBreak(y3, SectionMargin + 20, d2) + 1
           /\ curY' = YAfterBreak(y3, SectionMargin + 20) - Pt(20)
  /\ cpc' = "done"
  /\ UNCHANGED << comment, cStartY, cLines >>
  /\ CommentOnly

CommentNext == CommentSkip \/ CommentHeader \/ CommentTextLine \/ CommentRest

InitComment ==
  /\ CommentInit /\ TrecIdle /\ ReportIdle /\ WrapIdle
  /\ GridIdle /\ BoxIdle /\ PreloadIdle /\ TwiceIdle /\ SecIdle /\ FieldIdle /\ HandlerIdle
  /\ FetchIdle /\ RomanIdle

SpecComment == InitComment /\ [][CommentNext]_vars

\* ------------------------- imageCache, downloadImage, preloadAllImages (SpecPreload)
\* bound: the image references of the document (cover image and photos)
MaxRefs == 3

ImageUrls == { "u1", "u2" }

RECURSIVE RefsOfLength(_)
RefsOfLength(n) ==
  IF n = 0 THEN { <<>> }
  ELSE { Append(r, u) : r \in RefsOfLength(n - 1), u \in ImageUrls }

\* imageUrls, the Set preloadAllImages collects
UrlsOf(refs) == { refs[i] : i \in 1..Len(refs) }

\* a request of downloadImage: not made; pending; rejected by the 5 s timer
\* while the HTTP request lives on; rejected for good; resolved
NoRequests == [u \in ImageUrls |-> "none"]

\* response 'end': imageCache.set(url, buffer)
CacheSet(cache, u) == cache \cup {u}

PreloadInit ==
  /\ ppc = "start"
  /\ refUrls \in UNION { RefsOfLength(n) : n \in 0..MaxRefs }
  /\ imageCache = {}
  /\ requests = NoRequests
  /\ layoutIdx = 0
  /\ layoutHttp = 0
  /\ cacheAtLayout = {}

\* preloadAllImages up to its await: downloadImage is called for every
\* collected URL, each starting an HTTP request (the cache is empty)
PreloadStart ==
  /\ ppc = "start"
  /\ requests' = [u \in ImageUrls |->
                    IF u \in UrlsOf(refUrls) /\ u \notin imageCache
                    THEN "pending" ELSE "none"]
  /\ ppc' = "waiting"
  /\ UNCHANGED << refUrls, imageCache, layoutIdx, layoutHttp, cacheAtLayout >>
  /\ PreloadOnly

\* a response with status 200 ends: the buffer is cached; the promise
\* resolves unless the timer rejected it before
ResponseEnd ==
  /\ \E u \in ImageUrls :
       /\ requests[u] \in {"pending", "timerRejected"}
       /\ imageCache' = CacheSet(imageCache, u)
       /\ requests' = [requests EXCEPT ![u] =
                         IF requests[u] = "pending" THEN "resolved"
                         ELSE "rejected"]
  /\ UNCHANGED << ppc, refUrls, layoutIdx, layoutHttp, cacheAtLayout >>
  /\ PreloadOnly

\* a status other than 200, a request error or the socket timeout: the
\* promise is rejected and nothing is cached
ResponseFails ==
  /\ \E u \in ImageUrls :
       /\ requests[u] \in {"pending", "timerRejected"}
       /\ requests' = [requests EXCEPT ![u] = "rejected"]
  /\ UNCHANGED << ppc, refUrls, imageCache, layoutIdx, layoutHttp,
                  cacheAtLayout >>
  /\ PreloadOnly

\* the 5 s timer fires before any response: the promise is rejected, the
\* HTTP request is not destroyed
TimerFires ==
  /\ \E u \in ImageUrls :
       /\ requests[u] = "pending"
       /\ requests' = [requests EXCEPT ![u] = "timerRejected"]
  /\ UNCHANGED << ppc, refUrls, imageCache, layoutIdx, layoutHttp,
                  cacheAtLayout >>
  /\ PreloadOnly

\* Promise.allSettled settles: preloadAllImages returns and layout begins
PreloadReturn ==
  /\ ppc = "waiting"
  /\ \A u \in ImageUrls : requests[u] # "pending"
  /\ ppc' = "layout"
  /\ cacheAtLayout' = imageCache
  /\ layoutIdx' = 0
  /\ UNCHANGED << refUrls, imageCache, requests, layoutHttp >>
  /\ PreloadOnly

\* layout reaches the next image reference and awaits downloadImage(url):
\* answered from imageCache when the URL is cached, else by a new HTTP
\* request that ends well (and caches) or fails (and the image is left out)
LayoutDownload ==
  /\ ppc = "layout"
  /\ layoutIdx < Len(refUrls)
  /\ LET u == refUrls[layoutIdx + 1]
     IN  IF u \in imageCache
         THEN UNCHANGED << imageCache, layoutHttp >>
         ELSE /\ layoutHttp' = layoutHttp + 1
              /\ \E ok \in BOOLEAN :
                   imageCache' = IF ok THEN CacheSet(imageCache, u)
                                 ELSE imageCache
  /\ layoutIdx' = layoutIdx + 1
  /\ UNCHANGED << ppc, refUrls, requests, cacheAtLayout >>
  /\ PreloadOnly

\* the last section is laid out
LayoutEnd ==
  /\ ppc = "layout"
  /\ layoutIdx >= Len(refUrls)
  /\ ppc' = "done"
  /\ UNCHANGED << refUrls, imageCache, requests, layoutIdx, layoutHttp,
                  cacheAtLayout >>
  /\ PreloadOnly

PreloadNext ==
  \/ PreloadStart
  \/ ResponseEnd
  \/ ResponseFails
  \/ TimerFires
  \/ PreloadReturn
  \/ LayoutDownload
  \/ LayoutEnd

InitPreload ==
  /\ PreloadInit /\ TrecIdle /\ ReportIdle /\ WrapIdle
  /\ GridIdle /\ BoxIdle /\ CommentIdle /\ TwiceIdle /\ SecIdle /\ FieldIdle /\ HandlerIdle
  /\ FetchIdle /\ RomanIdle

SpecPreload == InitPreload /\ [][PreloadNext]_vars

\* ------------------------------------------- createPdf, twice on one request
\* bound of the requests: sections plus line items of the inspection tree
MaxTreeSize == 4

\* a photo as the layout sees it: whether its URL resolves to an image, the
\* image's pixel size, whether the photo has a caption
TwicePhotos ==
  [ tall   |-> [ok |-> TRUE, img |-> <<300, 1200>>, caption |-> FALSE],
    wide   |-> [ok |-> TRUE, img |-> <<1200, 800>>, caption |-> TRUE],
    failed |-> [ok |-> FALSE, img |-> <<0, 0>>, caption |-> FALSE] ]

\* the comments a line item may carry: a body that wraps to so many lines,
\* and photos
TwiceComments ==
  { [lines |-> 1, photos |-> <<>>],
    [lines |-> 0, photos |-> << TwicePhotos.tall >>],
    [lines |-> 2, photos |-> << TwicePhotos.failed, TwicePhotos.wide >>] }

\* line items: without comments, or with one
TwiceLineItems ==
  { [comments |-> <<>>] } \cup { [comments |-> << c >>] : c \in TwiceComments }

\* sections of k line items
SectionsOfLength(k) == { [lineItems |-> f] : f \in [1..k -> TwiceLineItems] }

\* inspection.sections of w sections and line items in all
RECURSIVE TreesOfSize(_)
TreesOfSize(w) ==
  IF w = 0 THEN { <<>> }
  ELSE UNION { { << s >> \o t : s \in SectionsOfLength(k),
                               t \in TreesOfSize(w - 1 - k) } :
               k \in 0..(w - 1) }

\* the requests: the tree, the pages buildTrecHeaderPdf gives for it, and
\* the lines the two default comments wrap to in the content column
Requests ==
  [ sections : UNION { TreesOfSize(w) : w \in 0..MaxTreeSize },
    headerPages : 0..MaxHeaderPages,
    defaultLines : { <<1, 1>>, <<1, 2>> } ]

\* defaultComments
DefaultComments(req) ==
  [i \in 1..2 |-> [lines |-> req.defaultLines[i], photos |-> <<>>]]

\* commentsToUse = lineItem?.comments?.length > 0 ? lineItem.comments
\*                                                : defaultComments
CommentsToUse(req, item) ==
  IF Len(item.comments) > 0 THEN item.comments ELSE DefaultComments(req)

\* the section, the line item and the comment the loops are at
CurSection == request.sections[secIdx]
CurLineItem == CurSection.lineItems[itemIdx]
CurComments == CommentsToUse(request, CurLineItem)
CurComment == CurComments[comIdx]

\* embedded: the photos of the comment that resolved to an image
EmbeddedOf(c) == SelectSeq(c.photos, LAMBDA p : p.ok)

\* pos.y at the start of the section loop, pos being a module-level object
\* that createPdf sets up only when it has none
RunStartY_KeepsPos(prevY) ==
  IF prevY = 0 THEN addPageTemplate(A4Height) ELSE prevY

\* let pos = { y: await addPageTemplate(page, ...) }: pos is a local of the
\* call, whatever pos.y the previous call ended with
RunStartY(prevY) == addPageTemplate(A4Height)

\* ensureSpace(needed) with pos.y lowered by pre, the draws of a block at
\* pos.y + dy for each mark <<kind, dy>>, then pos.y -= post
Block(pre, needed, post, marks) ==
  LET y == YAfterEnsure(posY - pre, needed)
      p == PageAfterEnsure(posY - pre, needed)
      draws == [m \in DOMAIN marks |-> Draw(marks[m][1], p, y + marks[m][2])]
  IN  /\ EnsureSpace(posY - pre, needed)
      /\ layoutLog' = layoutLog \o draws
      /\ lastDraws' = { draws[m] : m \in DOMAIN draws }
      /\ posY' = y - post

\* the marks of a grid row: per cell the image and, when it has one, the
\* caption below it
RECURSIVE RowMarks(_, _, _)
RowMarks(row, cellW, c) ==
  IF c > Len(row) THEN <<>>
  ELSE << <<"image", 0 - Pt(ScaledH(row[c].img, cellW))>> >>
       \o (IF row[c].caption
           THEN << <<"caption", 0 - Pt(ScaledH(row[c].img, cellW)) - Pt(10)>> >>
           ELSE <<>>)
       \o RowMarks(row, cellW, c + 1)

\* what no step of the layout touches
TwiceFrame ==
  /\ UNCHANGED << itemCount, commentsLeft, isDefault, imagesLeft, columns,
                  hasPhotos, footerI >>
  /\ UNCHANGED << request, run >>
  /\ TwiceOnly

\* what the steps of the section loop leave alone
TwiceLoopFrame ==
  /\ UNCHANGED << headerPages, totalPages, stamps, response,
                  firstLog, firstPages >>
  /\ TwiceFrame

TwiceInit ==
  /\ TrecInit
  /\ request \in Requests
  /\ run = 1
  /\ secIdx = 0
  /\ itemIdx = 0
  /\ comIdx = 0
  /\ rowI = 0
  /\ layoutLog = <<>>
  /\ firstLog = <<>>
  /\ firstPages = 0

\* createPdf up to the section loop: a new document, the header pages, the
\* first body page and its template, pos
TwiceStart ==
  /\ pc = "start"
  /\ headerPages' = request.headerPages
  /\ numPages' = request.headerPages + 1
  /\ currentPage' = request.headerPages + 1
  /\ templated' = { request.headerPages + 1 }
  /\ posY' = RunStartY(posY)
  /\ secIdx' = 0
  /\ layoutLog' = <<>>
  /\ pc' = "sections"
  /\ UNCHANGED << itemIdx, comIdx, rowI, linesLeft, lastEnsure, lastDraws,
                  totalPages, stamps, response, firstLog, firstPages >>
  /\ TwiceFrame

\* the next section: ensureSpace(40), the section header, pos.y -= 30
TwiceSectionHeader ==
  /\ pc = "sections"
  /\ secIdx < Len(request.sections)
  /\ Block(0, Pt(40), Pt(30), << <<"sectionHeader", 0>> >>)
  /\ secIdx' = secIdx + 1
  /\ itemIdx' = 0
  /\ pc' = "lineItems"
  /\ UNCHANGED << comIdx, rowI, linesLeft >>
  /\ TwiceLoopFrame

\* the next line item: ensureSpace(70), the check boxes at pos.y, the title
\* at pos.y + 7, pos.y -= 5
TwiceLineItemHeader ==
  /\ pc = "lineItems"
  /\ itemIdx < Len(CurSection.lineItems)
  /\ Block(0, Pt(70), Pt(5), << <<"checkbox", 0>>, <<"lineTitle", Pt(7)>> >>)
  /\ itemIdx' = itemIdx + 1
  /\ pc' = "commentsTitle"
  /\ UNCHANGED << secIdx, comIdx, rowI, linesLeft >>
  /\ TwiceLoopFrame

\* ensureSpace(32), the 'Comments:' label, pos.y -= 12
TwiceCommentsTitle ==
  /\ pc = "commentsTitle"
  /\ Block(0, Pt(32), Pt(12), << <<"commentsLabel", 0>> >>)
  /\ comIdx' = 0
  /\ pc' = "commentLabel"
  /\ UNCHANGED << secIdx, itemIdx, rowI, linesLeft >>
  /\ TwiceLoopFrame

\* addCommentsToLineItem on the next comment: ensureSpace(12), the label,
\* pos.y -= 12; the body is wrapped
TwiceCommentLabel ==
  /\ pc = "commentLabel"
  /\ comIdx < Len(CurComments)
  /\ Block(0, Pt(12), Pt(12), << <<"commentLabel", 0>> >>)
  /\ comIdx' = comIdx + 1
  /\ linesLeft' = CurComments[comIdx + 1].lines
  /\ rowI' = 0
  /\ pc' = "body"
  /\ UNCHANGED << secIdx, itemIdx >>
  /\ TwiceLoopFrame

\* drawWrapped, one line
TwiceBodyLine ==
  /\ pc = "body"
  /\ linesLeft > 0
  /\ Block(0, Pt(12), Pt(12), << <<"bodyLine", 0>> >>)
  /\ linesLeft' = linesLeft - 1
  /\ UNCHANGED << pc, secIdx, itemIdx, comIdx, rowI >>
  /\ TwiceLoopFrame

\* one row of the grid of the comment's embedded photos
TwiceGridRow ==
  /\ pc = "body"
  /\ linesLeft = 0
  /\ rowI < Len(EmbeddedOf(CurComment))
  /\ LET emb   == EmbeddedOf(CurComment)
         cols  == Min2(GRID_COLUMNS_DEFAULT, Len(emb))
         cellW == CellW(cols)
         row   == SubSeq(emb, rowI + 1, Min2(rowI + cols, Len(emb)))
         needed == RowNeeded(row, cellW)
     IN  /\ Block(0, needed, needed, RowMarks(row, cellW, 1))
         /\ rowI' = rowI + cols
  /\ UNCHANGED << pc, secIdx, itemIdx, comIdx, linesLeft >>
  /\ TwiceLoopFrame

\* the separator that ends the comment, and createPdf's gap after a comment
\* with photos
TwiceSeparator ==
  /\ pc = "body"
  /\ linesLeft = 0
  /\ rowI >= Len(EmbeddedOf(CurComment))
  /\ Block(Pt(10), Pt(1),
           Pt(10) + (IF Len(CurComment.photos) > 0 THEN Pt(10) ELSE 0),
           << <<"separator", 0>> >>)
  /\ pc' = "commentLabel"
  /\ UNCHANGED << secIdx, itemIdx, comIdx, rowI, linesLeft >>
  /\ TwiceLoopFrame

\* the comments of the line item are done: pos.y -= 10
TwiceEndLineItem ==
  /\ pc = "commentLabel"
  /\ comIdx >= Len(CurComments)
  /\ posY' = posY - Pt(10)
  /\ lastDraws' = {}
  /\ pc' = "lineItems"
  /\ UNCHANGED << numPages, currentPage, templated, lastEnsure, linesLeft,
                  secIdx, itemIdx, comIdx, rowI, layoutLog >>
  /\ TwiceLoopFrame

\* the line items of the section are done: pos.y -= 20
TwiceEndSection ==
  /\ pc = "lineItems"
  /\ itemIdx >= Len(CurSection.lineItems)
  /\ posY' = posY - Pt(20)
  /\ lastDraws' = {}
  /\ pc' = "sections"
  /\ UNCHANGED << numPages, currentPage, templated, lastEnsure, linesLeft,
                  secIdx, itemIdx, comIdx, rowI, layoutLog >>
  /\ TwiceLoopFrame

\* the sections are done: the footer pass stamps every page, the document
\* is saved and the call answers
TwiceFinish ==
  /\ pc = "sections"
  /\ secIdx >= Len(request.sections)
  /\ totalPages' = numPages
  /\ stamps' = [i \in 1..numPages |-> FooterStamp(i - 1, numPages)]
  /\ response' = "ok"
  /\ firstLog' = IF run = 1 THEN layoutLog ELSE firstLog
  /\ firstPages' = IF run = 1 THEN numPages ELSE firstPages
  /\ lastDraws' = {}
  /\ pc' = "done"
  /\ UNCHANGED << posY, numPages, currentPage, headerPages, templated,
                  lastEnsure, linesLeft, secIdx, itemIdx, comIdx, rowI,
                  layoutLog >>
  /\ TwiceFrame

\* the same request is posted again: createPdf is called a second time, in
\* the same process, with everything as the first call left it
TwiceAgain ==
  /\ pc = "done"
  /\ run = 1
  /\ run' = 2
  /\ pc' = "start"
  /\ UNCHANGED << posY, numPages, currentPage, headerPages, templated,
                  itemCount, commentsLeft, isDefault, linesLeft, imagesLeft,
                  columns, hasPhotos, lastEnsure, lastDraws, footerI,
                  totalPages, stamps, response >>
  /\ UNCHANGED << request, secIdx, itemIdx, comIdx, rowI, layoutLog,
                  firstLog, firstPages >>
  /\ TwiceOnly

TwiceNext ==
  \/ TwiceStart
  \/ TwiceSectionHeader
  \/ TwiceLineItemHeader
  \/ TwiceCommentsTitle
  \/ TwiceCommentLabel
  \/ TwiceBodyLine
  \/ TwiceGridRow
  \/ TwiceSeparator
  \/ TwiceEndLineItem
  \/ TwiceEndSection
  \/ TwiceFinish
  \/ TwiceAgain

InitTwice ==
  /\ TwiceInit /\ ReportIdle /\ WrapIdle
  /\ GridIdle /\ BoxIdle /\ CommentIdle /\ PreloadIdle /\ SecIdle /\ FieldIdle /\ HandlerIdle
  /\ FetchIdle /\ RomanIdle

SpecTwice == InitTwice /\ [][TwiceNext]_vars

\* --------------------------------------------------- generateCompleteReport
\* bounds of the inputs: the number of sections, and the pages a section
\* may take
MaxReportSections == 33
MaxSectionPages == 2

\* createTableOfContents: the defaults of its options, in points
TocTitleFontSize == 18
TocLineHeight == 20
TocMargin == 50

\* the sections whose order, sectionNumber and length vary; the others are
\* numbered by position, in order, one page each
VarSections == {1, 2}

SectionNumbers == {"", "1", "2"}

VarSectionChoices ==
  [order : 1..2, sectionNumber : SectionNumbers, pages : 1..MaxSectionPages]

\* the sectionNumbers the input gives are pairwise different
DistinctNumbers(v) ==
  \A a, b \in DOMAIN v :
    (a # b /\ v[a].sectionNumber # "") => v[a].sectionNumber # v[b].sectionNumber

\* the section lists of n sections
SectionLists(n) ==
  { [k \in 1..n |-> IF k \in DOMAIN v THEN v[k]
                    ELSE [order |-> k, sectionNumber |-> "", pages |-> 1]] :
      v \in { w \in [VarSections \cap 1..n -> VarSectionChoices] :
                DistinctNumbers(w) } }

\* [...sections].sort((a, b) => a.order - b.order): a stable sort by order
RECURSIVE InsertByOrder(_, _)
InsertByOrder(sorted, x) ==
  IF sorted = <<>> THEN << x >>
  ELSE IF sorted[Len(sorted)].order <= x.order THEN Append(sorted, x)
  ELSE Append(InsertByOrder(SubSeq(sorted, 1, Len(sorted) - 1), x),
              sorted[Len(sorted)])

RECURSIVE SortByOrder(_)
SortByOrder(s) ==
  IF s = <<>> THEN <<>>
  ELSE InsertByOrder(SortByOrder(SubSeq(s, 1, Len(s) - 1)), s[Len(s)])

\* n.toString() for n >= 0
DecimalDigits == << "0", "1", "2", "3", "4", "5", "6", "7", "8", "9" >>

RECURSIVE NumberToString(_)
NumberToString(n) ==
  IF n < 10 THEN DecimalDigits[n + 1]
  ELSE NumberToString(n \div 10) \o DecimalDigits[(n % 10) + 1]

\* section.sectionNumber || (i + 1).toString(), i the 0-based sorted index
SectionKey(section, i) ==
  IF section.sectionNumber # "" THEN section.sectionNumber
  ELSE NumberToString(i + 1)

\* obj[key] = value
MapPut(map, key, value) ==
  [k \in DOMAIN map \cup {key} |-> IF k = key THEN value ELSE map[k]]

\* the pages generateSectionPage appends for the section at sorted index i
SectionPages(i, n) == [j \in 1..n |-> [kind |-> "body", sec |-> i, idx |-> j]]

\* the offset the body pass adds to the page count for a section's number
StartPageOffset == 2

ReportInit ==
  /\ rpc = "start"
  /\ \E n \in 0..MaxReportSections : sections \in SectionLists(n)
  /\ includeTOC \in BOOLEAN
  /\ sortedSections = <<>>
  /\ doc = <<>>
  /\ sectionPageMap = EmptyMap
  /\ recorded = <<>>
  /\ ri = 0
  /\ tocPages = <<>>
  /\ tocPrinted = <<>>
  /\ result = "none"

\* no sections: generateCompleteReport throws before any page is created
ReportNoSections ==
  /\ rpc = "start"
  /\ Len(sections) = 0
  /\ result' = "error"
  /\ rpc' = "failed"
  /\ UNCHANGED << sections, sortedSections, includeTOC, doc, sectionPageMap,
                  recorded, ri, tocPages, tocPrinted >>
  /\ ReportOnly

\* the cover page is added and the sections are sorted
ReportStart ==
  /\ rpc = "start"
  /\ Len(sections) > 0
  /\ doc' = << [kind |-> "cover", sec |-> 0, idx |-> 1] >>
  /\ sortedSections' = SortByOrder(sections)
  /\ ri' = 0
  /\ rpc' = "body"
  /\ UNCHANGED << sections, includeTOC, sectionPageMap, recorded, tocPages,
                  tocPrinted, result >>
  /\ ReportOnly

\* one turn of the body loop: the section's starting page is recorded under
\* its key, then generateSectionPage appends the section's pages
ReportSection ==
  /\ rpc = "body"
  /\ ri < Len(sortedSections)
  /\ LET section == sortedSections[ri + 1]
         start == Len(doc) + StartPageOffset
     IN  /\ sectionPageMap' =
               MapPut(sectionPageMap, SectionKey(section, ri), start)
         /\ recorded' = Append(recorded, start)
         /\ doc' = doc \o SectionPages(ri + 1, section.pages)
  /\ ri' = ri + 1
  /\ UNCHANGED << rpc, sections, sortedSections, includeTOC, tocPages,
                  tocPrinted, result >>
  /\ ReportOnly

\* createTableOfContents: the Y of the first entry, below title and rule
TocFirstY == (A4Height - Pt(TocMargin)) - Pt(TocTitleFontSize + 30) - Pt(30)

\* the number of pages of the table of contents: entries i..n still to
\* place, the cursor at y, on page number p
RECURSIVE TocPageCount(_, _, _, _)
TocPageCount(i, n, y, p) ==
  IF i > n THEN p
  ELSE IF y < Pt(TocMargin + 50)
       THEN TocPageCount(i + 1, n, (A4Height - Pt(TocMargin)) - Pt(TocLineHeight), p + 1)
       ELSE TocPageCount(i + 1, n, y - Pt(TocLineHeight), p)

\* the page number the entry of the section at sorted index i (0-based) shows:
\* sectionPageMap[sectionNumber] || i + 3
TocPageNumber(map, section, i) ==
  IF SectionKey(section, i) \in DOMAIN map /\ map[SectionKey(section, i)] # 0
  THEN map[SectionKey(section, i)]
  ELSE i + 3

\* the body is done and the table of contents is wanted: it is laid out from
\* the same section list, sorted again, and its pages are copied
ReportCreateToc ==
  /\ rpc = "body"
  /\ ri >= Len(sortedSections)
  /\ includeTOC
  /\ LET tocSorted == SortByOrder(sections)
     IN  /\ tocPrinted' = [j \in 1..Len(tocSorted) |->
                             TocPageNumber(sectionPageMap, tocSorted[j], j - 1)]
         /\ tocPages' = [k \in 1..TocPageCount(1, Len(tocSorted), TocFirstY, 1) |->
                           [kind |-> "toc", sec |-> 0, idx |-> k]]
  /\ ri' = 0
  /\ rpc' = "splice"
  /\ UNCHANGED << sections, sortedSections, includeTOC, doc, sectionPageMap,
                  recorded, result >>
  /\ ReportOnly

\* every TOC page inserted right after the cover
TocInsertIndex_Fixed(i) == 1

\* the index at which the i-th TOC page (0-based) is inserted
TocInsertIndex(i) == 1 + i

\* pdfDoc.insertPage(index, page)
InsertPage(pages, index, page) ==
  SubSeq(pages, 1, index) \o << page >> \o SubSeq(pages, index + 1, Len(pages))

\* one turn of the insertion loop
ReportInsertTocPage ==
  /\ rpc = "splice"
  /\ ri < Len(tocPages)
  /\ doc' = InsertPage(doc, TocInsertIndex(ri), tocPages[ri + 1])
  /\ ri' = ri + 1
  /\ UNCHANGED << rpc, sections, sortedSections, includeTOC, sectionPageMap,
                  recorded, tocPages, tocPrinted, result >>
  /\ ReportOnly

\* the document is saved and the success result returned
ReportSave ==
  /\ \/ rpc = "splice" /\ ri >= Len(tocPages)
     \/ rpc = "body" /\ ri >= Len(sortedSections) /\ ~includeTOC
  /\ result' = "success"
  /\ rpc' = "done"
  /\ UNCHANGED << sections, sortedSections, includeTOC, doc, sectionPageMap,
                  recorded, ri, tocPages, tocPrinted >>
  /\ ReportOnly

ReportNext ==
  \/ ReportNoSections
  \/ ReportStart
  \/ ReportSection
  \/ ReportCreateToc
  \/ ReportInsertTocPage
  \/ ReportSave

InitReport == ReportInit /\ TrecIdle /\ WrapIdle /\ ExtIdle

SpecReport == InitReport /\ [][ReportNext]_vars

\* ----------------------------------------------------- sanitizeText, wrapText
\* bounds of the inputs: the length of the text, and maxWidth
MaxLen == 5
MaxWidth == 3

\* the characters of the input texts: two letters, the space, a line break,
\* and a character outside \x20-\x7E that is not white space
Space == " "
Newline == "\n"
NonAscii == "U+00E9"
Chars == {"a", "b", Space, Newline, NonAscii}

\* [\r\n] and \s over these characters
LineBreaks == {Newline}
WhiteSpace == {Space, Newline}

RECURSIVE TextsOfLength(_)
TextsOfLength(n) ==
  IF n = 0 THEN { <<>> }
  ELSE { Append(t, c) : t \in TextsOfLength(n - 1), c \in Chars }

Texts == UNION { TextsOfLength(n) : n \in 0..MaxLen }

\* text.replace(/[set]+/g, " "): every maximal run of characters of set
\* becomes one space
RECURSIVE ReplaceRuns(_, _)
ReplaceRuns(s, set) ==
  IF s = <<>> THEN <<>>
  ELSE IF Head(s) \in set
       THEN IF Len(s) > 1 /\ s[2] \in set
            THEN ReplaceRuns(Tail(s), set)
            ELSE << Space >> \o ReplaceRuns(Tail(s), set)
       ELSE << Head(s) >> \o ReplaceRuns(Tail(s), set)

\* text.replace(/[^\x20-\x7E]/g, "")
RemoveNonAscii(s) == SelectSeq(s, LAMBDA c : c # NonAscii)

RECURSIVE TrimStart(_)
TrimStart(s) ==
  IF s # <<>> /\ Head(s) \in WhiteSpace THEN TrimStart(Tail(s)) ELSE s

RECURSIVE TrimEnd(_)
TrimEnd(s) ==
  IF s # <<>> /\ s[Len(s)] \in WhiteSpace
  THEN TrimEnd(SubSeq(s, 1, Len(s) - 1)) ELSE s

\* text.trim()
Trim(s) == TrimEnd(TrimStart(s))

\* sanitizeText: line breaks to spaces, runs of white space to one space,
\* then the characters outside \x20-\x7E removed, then trimmed
sanitizeText(text) ==
  IF text = <<>> THEN <<>>
  ELSE Trim(RemoveNonAscii(ReplaceRuns(ReplaceRuns(text, LineBreaks),
                                       WhiteSpace)))

\* cleanText.split(" "): the pieces between the spaces, empty ones included;
\* the empty text gives one empty piece
RECURSIVE SplitFrom(_, _)
SplitFrom(s, piece) ==
  IF s = <<>> THEN << piece >>
  ELSE IF Head(s) = Space THEN << piece >> \o SplitFrom(Tail(s), <<>>)
  ELSE SplitFrom(Tail(s), Append(piece, Head(s)))

Split(s) == SplitFrom(s, <<>>)

\* the advance width of a character at the font size used
GlyphWidth(c) == IF c = "b" THEN 2 ELSE 1

\* font.widthOfTextAtSize(line, fontSize)
RECURSIVE widthOfTextAtSize(_)
widthOfTextAtSize(line) ==
  IF line = <<>> THEN 0
  ELSE GlyphWidth(Head(line)) + widthOfTextAtSize(Tail(line))

\* testLine = currentLine ? `${currentLine} ${word}` : word
TestLine(cur, word) ==
  IF cur # <<>> THEN cur \o << Space >> \o word ELSE word

\* the loop measuring the word alone
TestWidth_WordOnly(cur, word) == widthOfTextAtSize(word)

\* width = font.widthOfTextAtSize(testLine, fontSize)
TestWidth(cur, word) == widthOfTextAtSize(TestLine(cur, word))

\* wrapText returning without the pending line
FinalLines_NoFlush(ls, cur) == ls

\* if (currentLine) lines.push(currentLine)
FinalLines(ls, cur) == IF cur # <<>> THEN Append(ls, cur) ELSE ls

WrapInit ==
  /\ wpc = "start"
  /\ wText \in Texts
  /\ wMaxWidth \in 0..MaxWidth
  /\ wWords = <<>>
  /\ wIdx = 0
  /\ currentLine = <<>>
  /\ lines = <<>>

\* the text is sanitized and split into words
WrapStart ==
  /\ wpc = "start"
  /\ wWords' = Split(sanitizeText(wText))
  /\ wIdx' = 0
  /\ currentLine' = <<>>
  /\ lines' = <<>>
  /\ wpc' = "loop"
  /\ UNCHANGED << wText, wMaxWidth >>
  /\ WrapOnly

\* one turn of the loop over the words
WrapWord ==
  /\ wpc = "loop"
  /\ wIdx < Len(wWords)
  /\ LET word == wWords[wIdx + 1]
     IN  IF TestWidth(currentLine, word) > wMaxWidth /\ currentLine # <<>>
         THEN /\ lines' = Append(lines, currentLine)
              /\ currentLine' = word
         ELSE /\ currentLine' = TestLine(currentLine, word)
              /\ lines' = lines
  /\ wIdx' = wIdx + 1
  /\ UNCHANGED << wpc, wText, wMaxWidth, wWords >>
  /\ WrapOnly

\* the pending line is pushed and the lines are returned
WrapReturn ==
  /\ wpc = "loop"
  /\ wIdx >= Len(wWords)
  /\ lines' = FinalLines(lines, currentLine)
  /\ wpc' = "done"
  /\ UNCHANGED << wText, wMaxWidth, wWords, wIdx, currentLine >>
  /\ WrapOnly

WrapNext == WrapStart \/ WrapWord \/ WrapReturn

InitWrap == WrapInit /\ TrecIdle /\ ReportIdle /\ ExtIdle

SpecWrap == InitWrap /\ [][WrapNext]_vars

\* ------------------- generateSectionPage: the pages and media of a comment
\* bounds of the comment: wrapped text lines, photos, videos
MaxSecLines == 8
MaxSecPhotos == 3
MaxSecVideos == 2

\* the pixel sizes <<width, height>> of the photos; "bad" is a photo whose
\* download or embedding throws
PhotoKinds == {"small", "big", "bad"}
PhotoSize(kind) == IF kind = "small" THEN <<400, 200>> ELSE <<2000, 4000>>

\* image.scale(pct / 100), then the width capped at maxW and the height at
\* maxH keeping the proportions: <<width, height>> in hundredths of a point
ScaleFit(size, pct, maxW, maxH) ==
  LET w0 == size[1] * pct
      h0 == size[2] * pct
      w1 == IF w0 > maxW THEN maxW ELSE w0
      h1 == IF w0 > maxW THEN (size[2] * maxW) \div size[1] ELSE h0
      w2 == IF h1 > maxH THEN (w1 * maxH) \div h1 ELSE w1
      h2 == IF h1 > maxH THEN maxH ELSE h1
  IN  << w2, h2 >>

\* imgBoxWidth of the two-column and of the three-column layout
PairBoxWidth ==
  (A4Width - 2 * Pt(SectionMargin) - Pt(30) - Pt(15)) \div 2
GridBoxWidth ==
  (A4Width - 2 * Pt(SectionMargin) - Pt(30) - 2 * Pt(10)) \div 3

\* the height a photo is drawn with beside the text, in the two-column and in
\* the three-column layout
SingleHeight(kind) == ScaleFit(PhotoSize(kind), 25, Pt(170), Pt(200))[2]
PairHeight(kind) == ScaleFit(PhotoSize(kind), 35, PairBoxWidth, Pt(200))[2]
GridHeight(kind) == ScaleFit(PhotoSize(kind), 30, GridBoxWidth, Pt(150))[2]

\* the comments: the lines the text wraps to, the photos, the videos; a
\* comment has some content
PhotoLists == UNION { [1..n -> PhotoKinds] : n \in 0..MaxSecPhotos }
SecComments ==
  { c \in [lines : {0, 1, MaxSecLines}, photos : PhotoLists,
           videos : 0..MaxSecVideos] :
      c.lines > 0 \/ Len(c.photos) > 0 \/ c.videos > 0 }

\* mediaItems: the photos, then the videos
MediaItems(c) ==
  [i \in 1..(Len(c.photos) + c.videos) |->
     IF i <= Len(c.photos) THEN [type |-> "photo", kind |-> c.photos[i]]
     ELSE [type |-> "video", kind |-> "video"]]

\* currentY when the comment is reached: high on the page, mid-page, and
\* right above the limit of the comment's own page break
SecStartYs == { PageHeaderY - Pt(84), Pt(300), Pt(172) }

\* a page added by generateSectionPage itself: full size, createPageHeader
\* drawn on it once with `Page ${pageNumber}`
BodyPage(n) ==
  [kind |-> "body", width |-> A4Width, height |-> A4Height,
   headers |-> 1, printed |-> n]

\* the page createVideoPlaceholder adds: pdfDoc.addPage([320, 240]), no header
PlaceholderPage ==
  [kind |-> "placeholder", width |-> Pt(320), height |-> Pt(240),
   headers |-> 0, printed |-> 0]

\* createNewPage when break holds: the pages, the page number, the cursor
PagesAfter(break, pages, pn) ==
  IF break THEN Append(pages, BodyPage(pn + 1)) ELSE pages
NumberAfter(break, pn) == IF break THEN pn + 1 ELSE pn
CursorAfter(break, y) == IF break THEN PageHeaderY ELSE y

\* the steps of createNewPage on the section's state, the cursor being y
\* and the pages being pages when the test is made
NewPageIf(break, pages) ==
  /\ secPages' = PagesAfter(break, pages, pageNumber)
  /\ secPage' = IF break THEN Len(pages) + 1 ELSE secPage
  /\ pageNumber' = NumberAfter(break, pageNumber)

\* the pages of the table of contents of a report of n sections
TocPagesOf(n) == TocPageCount(1, n, TocFirstY, 1)

SecInit ==
  /\ spc = "start"
  /\ secComment \in SecComments
  /\ secIncludeTOC \in BOOLEAN
  /\ secCount \in {1, MaxReportSections}
  /\ secPages = <<>>
  /\ secPage = 0
  /\ pageNumber = 0
  /\ currentY = 0
  /\ secLines = 0
  /\ textStartY = 0
  /\ textStartPage = 0
  /\ mediaI = 0
  /\ gridCol = 0
  /\ rowStartY = 0
  /\ maxRowHeight = 0
  /\ gridRowNo = 0
  /\ mediaDrawn = <<>>
  /\ gridBreaks = <<>>
  /\ finalDoc = <<>>

\* what no step changes
SecInputs == UNCHANGED << secComment, secIncludeTOC, secCount >>

\* the first section of the report: the document holds the cover, the page
\* number is getPageCount() + 2; generateSectionPage adds its first page,
\* draws the header, then the section title and the line item title bring
\* the cursor to where the comment is reached
SecStart ==
  /\ spc = "start"
  /\ pageNumber' = 1 + StartPageOffset
  /\ secPages' = << BodyPage(1 + StartPageOffset) >>
  /\ secPage' = 1
  /\ \E y \in SecStartYs : currentY' = y
  /\ spc' = "comment"
  /\ UNCHANGED << secLines, textStartY, textStartPage, mediaI, gridCol,
                  rowStartY, maxRowHeight, gridRowNo, mediaDrawn, gridBreaks,
                  finalDoc >>
  /\ SecInputs /\ SecOnly

\* the comment: a new page below margin + 150, the header line, then
\* textStartY is taken
SecCommentHeader ==
  /\ spc = "comment"
  /\ LET break == BreakIfBelow(currentY, SectionMargin + 150)
         y == CursorAfter(break, currentY) - Pt(SectionLineHeight) - Pt(10)
     IN  /\ NewPageIf(break, secPages)
         /\ currentY' = y
         /\ textStartY' = y
         /\ textStartPage' = IF break THEN Len(secPages) + 1 ELSE secPage
  /\ secLines' = secComment.lines
  /\ spc' = "text"
  /\ UNCHANGED << mediaI, gridCol, rowStartY, maxRowHeight, gridRowNo,
                  mediaDrawn, gridBreaks, finalDoc >>
  /\ SecInputs /\ SecOnly

\* one wrapped line: a new page below margin + 30, the line,
\* currentY -= lineHeight
SecTextLine ==
  /\ spc = "text"
  /\ secLines > 0
  /\ LET break == BreakIfBelow(currentY, SectionMargin + 30)
     IN  /\ NewPageIf(break, secPages)
         /\ currentY' = CursorAfter(break, currentY) - Pt(SectionLineHeight)
  /\ secLines' = secLines - 1
  /\ UNCHANGED << spc, textStartY, textStartPage, mediaI, gridCol, rowStartY,
                  maxRowHeight, gridRowNo, mediaDrawn, gridBreaks, finalDoc >>
  /\ SecInputs /\ SecOnly

\* the text is drawn and the comment has no photo and no video
SecNoMedia ==
  /\ spc = "text"
  /\ secLines = 0
  /\ Len(MediaItems(secComment)) = 0
  /\ spc' = "separator"
  /\ UNCHANGED << secPages, secPage, pageNumber, currentY, secLines,
                  textStartY, textStartPage, mediaI, gridCol, rowStartY,
                  maxRowHeight, gridRowNo, mediaDrawn, gridBreaks, finalDoc >>
  /\ SecInputs /\ SecOnly

\* totalMedia === 1 && numPhotos === 1: the photo is drawn on page with its
\* top at textStartY, and currentY = min(textEndY, imageY - imgHeight - 25);
\* a photo that fails to load leaves everything as it is
SecSinglePhoto ==
  /\ spc = "text"
  /\ secLines = 0
  /\ Len(secComment.photos) = 1 /\ secComment.videos = 0
  /\ LET kind == secComment.photos[1]
         h == SingleHeight(kind)
     IN  IF kind = "bad"
         THEN UNCHANGED << mediaDrawn, currentY >>
         ELSE /\ mediaDrawn' = Append(mediaDrawn,
                   [i |-> 0, kind |-> "photo", page |-> secPage,
                    top |-> textStartY, h |-> h, row |-> 0])
              /\ currentY' = Min2(currentY, textStartY - h - Pt(25))
  /\ spc' = "separator"
  /\ UNCHANGED << secPages, secPage, pageNumber, secLines, textStartY,
                  textStartPage, mediaI, gridCol, rowStartY, maxRowHeight,
                  gridRowNo, gridBreaks, finalDoc >>
  /\ SecInputs /\ SecOnly

\* totalMedia === 2, one turn of the loop: a video first gets a page from
\* createVideoPlaceholder; then a new page when currentY < imgHeight + 50;
\* the item is drawn with its top at currentY. A photo that fails to load is
\* passed over.
SecPairItem ==
  /\ spc = "text"
  /\ secLines = 0
  /\ Len(MediaItems(secComment)) = 2
  /\ mediaI < 2
  /\ LET item == MediaItems(secComment)[mediaI + 1]
         isVideo == item.type = "video"
         h == IF isVideo THEN Pt(200) ELSE PairHeight(item.kind)
         pages1 == IF isVideo THEN Append(secPages, PlaceholderPage)
                   ELSE secPages
         break == currentY < h + Pt(50)
     IN  IF item.kind = "bad"
         THEN UNCHANGED << secPages, secPage, pageNumber, currentY,
                           maxRowHeight, mediaDrawn >>
         ELSE /\ NewPageIf(break, pages1)
              /\ currentY' = CursorAfter(break, currentY)
              /\ maxRowHeight' = IF break THEN 0 ELSE Max2(maxRowHeight, h)
              /\ mediaDrawn' = Append(mediaDrawn,
                   [i |-> mediaI, kind |-> item.type,
                    page |-> IF break THEN Len(pages1) + 1 ELSE secPage,
                    top |-> CursorAfter(break, currentY), h |-> h,
                    row |-> 0])
  /\ mediaI' = mediaI + 1
  /\ UNCHANGED << spc, secLines, textStartY, textStartPage, gridCol,
                  rowStartY, gridRowNo, gridBreaks, finalDoc >>
  /\ SecInputs /\ SecOnly

\* after the two items: currentY -= maxRowHeight + 25
SecPairEnd ==
  /\ spc = "text"
  /\ secLines = 0
  /\ Len(MediaItems(secComment)) = 2
  /\ mediaI >= 2
  /\ currentY' = currentY - (maxRowHeight + Pt(25))
  /\ spc' = "separator"
  /\ UNCHANGED << secPages, secPage, pageNumber, secLines, textStartY,
                  textStartPage, mediaI, gridCol, rowStartY, maxRowHeight,
                  gridRowNo, mediaDrawn, gridBreaks, finalDoc >>
  /\ SecInputs /\ SecOnly

\* the comment's media go to the three-column grid: one video alone, or
\* three and more items
InGrid(c) ==
  /\ Len(MediaItems(c)) > 0
  /\ Len(MediaItems(c)) # 2
  /\ ~(Len(c.photos) = 1 /\ c.videos = 0)

\* the grid is entered: col = 0, maxRowHeight = 0, rowStartY = currentY
SecGridStart ==
  /\ spc = "text"
  /\ secLines = 0
  /\ InGrid(secComment)
  /\ gridCol' = 0
  /\ maxRowHeight' = 0
  /\ rowStartY' = currentY
  /\ mediaI' = 0
  /\ spc' = "grid"
  /\ UNCHANGED << secPages, secPage, pageNumber, currentY, secLines,
                  textStartY, textStartPage, gridRowNo, mediaDrawn,
                  gridBreaks, finalDoc >>
  /\ SecInputs /\ SecOnly

\* one turn of the grid loop: a new page when currentY < imgHeight + 50
\* (rowStartY = currentY, col = 0, maxRowHeight = 0), the item drawn with its
\* top at rowStartY, col++, and after three items the next row
SecGridItem ==
  /\ spc = "grid"
  /\ mediaI < Len(MediaItems(secComment))
  /\ LET item == MediaItems(secComment)[mediaI + 1]
         h == IF item.type = "video" THEN Pt(150) ELSE GridHeight(item.kind)
         break == currentY < h + Pt(50)
         y1 == CursorAfter(break, currentY)
         start1 == IF break THEN y1 ELSE rowStartY
         col1 == IF break THEN 0 ELSE gridCol
         max1 == IF break THEN 0 ELSE Max2(maxRowHeight, h)
         wrap == col1 + 1 >= 3
     IN  IF item.kind = "bad"
         THEN UNCHANGED << secPages, secPage, pageNumber, currentY, gridCol,
                           rowStartY, maxRowHeight, gridRowNo, mediaDrawn,
                           gridBreaks >>
         ELSE /\ NewPageIf(break, secPages)
              /\ gridBreaks' = IF break THEN Append(gridBreaks, gridCol)
                               ELSE gridBreaks
              /\ mediaDrawn' = Append(mediaDrawn,
                   [i |-> mediaI, kind |-> item.type,
                    page |-> IF break THEN Len(secPages) + 1 ELSE secPage,
                    top |-> start1, h |-> h, row |-> gridRowNo])
              /\ currentY' = IF wrap THEN start1 - max1 - Pt(25) ELSE y1
              /\ rowStartY' = IF wrap THEN start1 - max1 - Pt(25) ELSE start1
              /\ gridCol' = IF wrap THEN 0 ELSE col1 + 1
              /\ maxRowHeight' = IF wrap THEN 0 ELSE max1
              /\ gridRowNo' = IF wrap THEN gridRowNo + 1 ELSE gridRowNo
  /\ mediaI' = mediaI + 1
  /\ UNCHANGED << spc, secLines, textStartY, textStartPage, finalDoc >>
  /\ SecInputs /\ SecOnly

\* after the loop: an incomplete row is closed
SecGridEnd ==
  /\ spc = "grid"
  /\ mediaI >= Len(MediaItems(secComment))
  /\ currentY' = IF gridCol > 0 THEN rowStartY - maxRowHeight - Pt(25)
                 ELSE currentY
  /\ spc' = "separator"
  /\ UNCHANGED << secPages, secPage, pageNumber, secLines, textStartY,
                  textStartPage, mediaI, gridCol, rowStartY, maxRowHeight,
                  gridRowNo, mediaDrawn, gridBreaks, finalDoc >>
  /\ SecInputs /\ SecOnly

\* the rule after the comment: currentY -= 5, a new page below margin + 20,
\* the rule, currentY -= 20; then the gaps after the comments and the line
\* item
SecSeparator ==
  /\ spc = "separator"
  /\ LET break == BreakIfBelow(currentY - Pt(5), SectionMargin + 20)
     IN  /\ NewPageIf(break, secPages)
         /\ currentY' = CursorAfter(break, currentY - Pt(5))
                          - Pt(20) - Pt(10) - Pt(5)
  /\ spc' = "end"
  /\ UNCHANGED << secLines, textStartY, textStartPage, mediaI, gridCol,
                  rowStartY, maxRowHeight, gridRowNo, mediaDrawn, gridBreaks,
                  finalDoc >>
  /\ SecInputs /\ SecOnly

\* the end of the section: a new page below margin + 40, the separator and
\* the end text; generateSectionPage returns
SecEnd ==
  /\ spc = "end"
  /\ LET break == BreakIfBelow(currentY, SectionMargin + 40)
     IN  /\ NewPageIf(break, secPages)
         /\ currentY' = CursorAfter(break, currentY) - Pt(20) - Pt(15)
  /\ spc' = "splice"
  /\ UNCHANGED << secLines, textStartY, textStartPage, mediaI, gridCol,
                  rowStartY, maxRowHeight, gridRowNo, mediaDrawn, gridBreaks,
                  finalDoc >>
  /\ SecInputs /\ SecOnly

\* the other sections are rendered after this one; then, with includeTOC,
\* the pages of the table of contents are inserted behind the cover, and
\* the document is saved
SecSave ==
  /\ spc = "splice"
  /\ finalDoc' =
       << [kind |-> "cover", width |-> A4Width, height |-> A4Height,
           headers |-> 0, printed |-> 0] >>
       \o (IF secIncludeTOC
           THEN [k \in 1..TocPagesOf(secCount) |->
                   [kind |-> "toc", width |-> A4Width, height |-> A4Height,
                    headers |-> 0, printed |-> 0]]
           ELSE <<>>)
       \o secPages
  /\ spc' = "done"
  /\ UNCHANGED << secPages, secPage, pageNumber, currentY, secLines,
                  textStartY, textStartPage, mediaI, gridCol, rowStartY,
                  maxRowHeight, gridRowNo, mediaDrawn, gridBreaks >>
  /\ SecInputs /\ SecOnly

SecNext ==
  \/ SecStart
  \/ SecCommentHeader
  \/ SecTextLine
  \/ SecNoMedia
  \/ SecSinglePhoto
  \/ SecPairItem
  \/ SecPairEnd
  \/ SecGridStart
  \/ SecGridItem
  \/ SecGridEnd
  \/ SecSeparator
  \/ SecEnd
  \/ SecSave

InitSection ==
  /\ SecInit /\ TrecIdle /\ ReportIdle /\ WrapIdle
  /\ GridIdle /\ BoxIdle /\ CommentIdle /\ PreloadIdle /\ TwiceIdle
  /\ FieldIdle /\ HandlerIdle
  /\ FetchIdle /\ RomanIdle

SpecSection == InitSection /\ [][SecNext]_vars

\* ------------------------------ createPdf: the form fields of the check boxes
\* bound of the input: the sections of the inspection
MaxFieldSections == 2

\* the ids of line items
ItemIds == {"a", "b"}

\* the line item ids of a section: unique within the section
IdLists == { <<>> } \cup { << x >> : x \in ItemIds }
             \cup { p \in { << x, y >> : x \in ItemIds, y \in ItemIds } :
                      p[1] # p[2] }

\* the sections of the inspection, each given by the ids of its line items
IdTrees == UNION { [1..n -> IdLists] : n \in 0..MaxFieldSections }

\* `lineItem.${lineItem.id}.${type}`
FieldName(id, type) == "lineItem." \o id \o "." \o type

\* form.createCheckBox(name) throws when the form has a field of that name
FieldExists(names, name) == \E k \in DOMAIN names : names[k] = name

FieldInit ==
  /\ fpc = "sections"
  /\ idTree \in IdTrees
  /\ fSec = 0
  /\ fItem = 0
  /\ fType = 0
  /\ fieldNames = <<>>
  /\ fResponse = "none"

\* the section loop takes the next section
FieldNextSection ==
  /\ fpc = "sections"
  /\ fSec < Len(idTree)
  /\ fSec' = fSec + 1
  /\ fItem' = 0
  /\ fpc' = "lineItems"
  /\ UNCHANGED << idTree, fType, fieldNames, fResponse >>
  /\ FieldOnly

\* the line item loop takes the next line item and calls
\* addCheckBoxToLineItem
FieldNextItem ==
  /\ fpc = "lineItems"
  /\ fItem < Len(idTree[fSec])
  /\ fItem' = fItem + 1
  /\ fType' = 0
  /\ fpc' = "boxes"
  /\ UNCHANGED << idTree, fSec, fieldNames, fResponse >>
  /\ FieldOnly

\* one turn of checkboxTypes.forEach: the field is created under its name
FieldCreate ==
  /\ fpc = "boxes"
  /\ fType < Len(checkboxTypes)
  /\ ~FieldExists(fieldNames,
                  FieldName(idTree[fSec][fItem], checkboxTypes[fType + 1]))
  /\ fieldNames' = Append(fieldNames,
                     FieldName(idTree[fSec][fItem], checkboxTypes[fType + 1]))
  /\ fType' = fType + 1
  /\ UNCHANGED << fpc, idTree, fSec, fItem, fResponse >>
  /\ FieldOnly

\* createCheckBox throws on a name the form already has: createPdf rejects
\* and generatePdf answers 500
FieldThrows ==
  /\ fpc = "boxes"
  /\ fType < Len(checkboxTypes)
  /\ FieldExists(fieldNames,
                 FieldName(idTree[fSec][fItem], checkboxTypes[fType + 1]))
  /\ fResponse' = "500"
  /\ fpc' = "failed"
  /\ UNCHANGED << idTree, fSec, fItem, fType, fieldNames >>
  /\ FieldOnly

\* the four boxes of the line item are created
FieldItemDone ==
  /\ fpc = "boxes"
  /\ fType >= Len(checkboxTypes)
  /\ fpc' = "lineItems"
  /\ UNCHANGED << idTree, fSec, fItem, fType, fieldNames, fResponse >>
  /\ FieldOnly

\* the line items of the section are done
FieldSectionDone ==
  /\ fpc = "lineItems"
  /\ fItem >= Len(idTree[fSec])
  /\ fpc' = "sections"
  /\ UNCHANGED << idTree, fSec, fItem, fType, fieldNames, fResponse >>
  /\ FieldOnly

\* the sections are done: the document is saved and the success answer sent
FieldFinish ==
  /\ fpc = "sections"
  /\ fSec >= Len(idTree)
  /\ fResponse' = "ok"
  /\ fpc' = "done"
  /\ UNCHANGED << idTree, fSec, fItem, fType, fieldNames >>
  /\ FieldOnly

FieldNext ==
  \/ FieldNextSection
  \/ FieldNextItem
  \/ FieldCreate
  \/ FieldThrows
  \/ FieldItemDone
  \/ FieldSectionDone
  \/ FieldFinish

InitFields ==
  /\ FieldInit /\ TrecIdle /\ ReportIdle /\ WrapIdle
  /\ GridIdle /\ BoxIdle /\ CommentIdle /\ PreloadIdle /\ TwiceIdle
  /\ SecIdle /\ HandlerIdle
  /\ FetchIdle /\ RomanIdle

SpecFields == InitFields /\ [][FieldNext]_vars

\* ------------------------------------------- generateCompleteReportHandler
\* generate-complete-report.js: generateCompleteReport as its two callers run
\* it, the route handler with outputPath null and the command line with the
\* path of its second argument. A rendering step either succeeds or throws;
\* the function's catch rethrows, and the caller turns the rejection into
\* its answer.
MaxHandlerSections == 5

HandlerCallers == { "handler", "cli" }

\* the outputPath each caller passes
OutputPathOf(caller) == IF caller = "handler" THEN "null" ELSE "report.pdf"

\* fs.writeFileSync(path, data) throws ERR_INVALID_ARG_TYPE when path is
\* null; with a path the write is the file system's to refuse
WriteFileSyncOutcomes(path) ==
  IF path = "null" THEN { "throws" } ELSE { "written", "throws" }

\* what the caller answers to a resolved or a rejected promise
AnswerOf(caller, resolved) ==
  IF caller = "handler"
  THEN IF resolved THEN "pdf" ELSE "500"
  ELSE IF resolved THEN "exit0" ELSE "exit1"

HandlerInit ==
  /\ hpc = "called"
  /\ hCaller \in HandlerCallers
  /\ hSections \in 0..MaxHandlerSections
  /\ hIncludeTOC \in BOOLEAN
  /\ hOutputPath = OutputPathOf(hCaller)
  /\ hI = 0
  /\ hThrown = "none"
  /\ hResponse = "none"

HandlerFrame == UNCHANGED << hCaller, hSections, hIncludeTOC, hOutputPath >>

\* sections.length === 0: throw new Error("No sections found ...")
HandlerNoSections ==
  /\ hpc = "called"
  /\ hSections = 0
  /\ hThrown' = "noSections"
  /\ hpc' = "rejected"
  /\ UNCHANGED << hI, hResponse >>
  /\ HandlerFrame
  /\ HandlerOnly

\* the document is created and createCoverPage draws the cover, or throws
HandlerCover ==
  /\ hpc = "called"
  /\ hSections > 0
  /\ \E ok \in BOOLEAN :
       IF ok
       THEN /\ hpc' = "sections"
            /\ UNCHANGED hThrown
       ELSE /\ hpc' = "rejected"
            /\ hThrown' = "cover"
  /\ UNCHANGED << hI, hResponse >>
  /\ HandlerFrame
  /\ HandlerOnly

\* one turn of the section loop: generateSectionPage renders the section,
\* or throws
HandlerSection ==
  /\ hpc = "sections"
  /\ hI < hSections
  /\ \E ok \in BOOLEAN :
       IF ok
       THEN /\ hI' = hI + 1
            /\ UNCHANGED << hpc, hThrown >>
       ELSE /\ hpc' = "rejected"
            /\ hThrown' = "section"
            /\ UNCHANGED hI
  /\ UNCHANGED hResponse
  /\ HandlerFrame
  /\ HandlerOnly

\* after the loop: with includeTOC the contents pages are made and
\* inserted, or that throws; without it the step is skipped
HandlerToc ==
  /\ hpc = "sections"
  /\ hI >= hSections
  /\ IF hIncludeTOC
     THEN \E ok \in BOOLEAN :
            IF ok
            THEN /\ hpc' = "saving"
                 /\ UNCHANGED hThrown
            ELSE /\ hpc' = "rejected"
                 /\ hThrown' = "toc"
     ELSE /\ hpc' = "saving"
          /\ UNCHANGED hThrown
  /\ UNCHANGED << hI, hResponse >>
  /\ HandlerFrame
  /\ HandlerOnly

\* pdfDoc.save(), then fs.writeFileSync(outputPath, pdfBytes), then the
\* result object is returned
HandlerSave ==
  /\ hpc = "saving"
  /\ \E out \in WriteFileSyncOutcomes(hOutputPath) :
       IF out = "written"
       THEN /\ hpc' = "resolved"
            /\ UNCHANGED hThrown
       ELSE /\ hpc' = "rejected"
            /\ hThrown' = "write"
  /\ UNCHANGED << hI, hResponse >>
  /\ HandlerFrame
  /\ HandlerOnly

\* the caller's continuation: the bytes are sent (or the process exits 0)
HandlerRespond ==
  /\ hpc = "resolved"
  /\ hResponse' = AnswerOf(hCaller, TRUE)
  /\ hpc' = "answered"
  /\ UNCHANGED << hI, hThrown >>
  /\ HandlerFrame
  /\ HandlerOnly

\* the caller's catch: status 500 with the error (or the process exits 1)
HandlerCatch ==
  /\ hpc = "rejected"
  /\ hResponse' = AnswerOf(hCaller, FALSE)
  /\ hpc' = "answered"
  /\ UNCHANGED << hI, hThrown >>
  /\ HandlerFrame
  /\ HandlerOnly

HandlerNext ==
  \/ HandlerNoSections
  \/ HandlerCover
  \/ HandlerSection
  \/ HandlerToc
  \/ HandlerSave
  \/ HandlerRespond
  \/ HandlerCatch

InitHandler ==
  /\ HandlerInit /\ TrecIdle /\ ReportIdle /\ WrapIdle
  /\ GridIdle /\ BoxIdle /\ CommentIdle /\ PreloadIdle /\ TwiceIdle
  /\ SecIdle /\ FieldIdle /\ FetchIdle /\ RomanIdle

SpecHandler == InitHandler /\ [][HandlerNext]_vars

\* ------------------------------------------------------ fetchAndEmbedImage
\* part_004: one call of fetchAndEmbedImage(url, doc). The promise has a
\* resolve and no reject; it is resolved by the response callback, by the
\* 'end' listener of the response and by the 'error' listener of the
\* request, the only three listeners the code attaches besides 'data' and
\* the timeout. The events are those Node's http client emits.
MaxChunks == 3

ImageExts == { "png", "jpg", "jpeg", "other" }

StatusCodes == { 0, 200, 204, 301, 404, 500 }

\* resolve(v): the first call settles the promise, later calls do nothing
Resolve(promise, v) == IF promise = "pending" THEN v ELSE promise

\* the 'end' listener: by the url's extension embedPng or embedJpg alone,
\* otherwise embedJpg and then embedPng; whatever throws gives null
EndResult(ext, decodes) ==
  IF ext = "png"
  THEN IF decodes.png THEN "image" ELSE "null"
  ELSE IF ext \in { "jpg", "jpeg" }
       THEN IF decodes.jpg THEN "image" ELSE "null"
       ELSE IF decodes.jpg \/ decodes.png THEN "image" ELSE "null"

FetchInit ==
  /\ epc = "called"
  /\ eUrl \in [ valid : BOOLEAN, ext : ImageExts ]
  /\ eDecodes \in [ jpg : BOOLEAN, png : BOOLEAN ]
  /\ eStatus = 0
  /\ eChunks = 0
  /\ eError = "none"
  /\ ePromise = "pending"

FetchFrame == UNCHANGED << eUrl, eDecodes >>

\* url.startsWith or client.get throws on a url it cannot take: the catch
\* of the executor resolves null
FetchGetThrows ==
  /\ epc = "called"
  /\ ~eUrl.valid
  /\ ePromise' = Resolve(ePromise, "null")
  /\ epc' = "closed"
  /\ UNCHANGED << eStatus, eChunks >>
  /\ eError' = "invalid url"
  /\ FetchFrame
  /\ FetchOnly

\* client.get sends the request; the timeout and the 'error' listener are
\* set on it
FetchGet ==
  /\ epc = "called"
  /\ eUrl.valid
  /\ epc' = "waiting"
  /\ UNCHANGED << eStatus, eChunks, eError, ePromise >>
  /\ FetchFrame
  /\ FetchOnly

\* the connection fails before a response: the request emits 'error'
FetchConnectionError ==
  /\ epc = "waiting"
  /\ ePromise' = Resolve(ePromise, "null")
  /\ epc' = "closed"
  /\ UNCHANGED << eStatus, eChunks >>
  /\ eError' = "socket"
  /\ FetchFrame
  /\ FetchOnly

\* the socket is idle for TIMEOUT_MS before the headers: the callback
\* destroys the request with the timeout error, the request emits 'error'
FetchTimeoutBeforeHeaders ==
  /\ epc = "waiting"
  /\ ePromise' = Resolve(ePromise, "null")
  /\ epc' = "closed"
  /\ UNCHANGED << eStatus, eChunks >>
  /\ eError' = "timeout"
  /\ FetchFrame
  /\ FetchOnly

\* the response callback: outside 200..299 the body is discarded and null
\* resolved; otherwise the 'data' and 'end' listeners are attached
FetchResponse ==
  /\ epc = "waiting"
  /\ \E code \in StatusCodes :
       /\ eStatus' = code
       /\ IF code < 200 \/ code >= 300
          THEN /\ ePromise' = Resolve(ePromise, "null")
               /\ epc' = "discarding"
          ELSE /\ epc' = "body"
               /\ UNCHANGED ePromise
  /\ UNCHANGED << eChunks, eError >>
  /\ FetchFrame
  /\ FetchOnly

\* a 'data' event: the chunk is pushed
FetchData ==
  /\ epc = "body"
  /\ eChunks < MaxChunks
  /\ eChunks' = eChunks + 1
  /\ UNCHANGED << epc, eStatus, eError, ePromise >>
  /\ FetchFrame
  /\ FetchOnly

\* the 'end' event: the bytes are embedded
FetchEnd ==
  /\ epc = "body"
  /\ ePromise' = Resolve(ePromise, EndResult(eUrl.ext, eDecodes))
  /\ epc' = "closed"
  /\ UNCHANGED << eStatus, eChunks, eError >>
  /\ FetchFrame
  /\ FetchOnly

\* the connection closes before the body is complete: the response emits
\* 'aborted' and 'close' (its 'error' goes only to a listener of the
\* response), the request emits 'close'; no 'end', no 'error' on the request
FetchAborted ==
  /\ epc = "body"
  /\ epc' = "closed"
  /\ UNCHANGED << eStatus, eChunks, ePromise >>
  /\ eError' = "aborted"
  /\ FetchFrame
  /\ FetchOnly

\* the socket is idle for TIMEOUT_MS after the headers: the callback
\* destroys the request; the error goes to the response, and to the
\* request's 'error' listener where the socket's error reaches the request
FetchTimeoutAfterHeaders ==
  /\ epc = "body"
  /\ \E onRequest \in BOOLEAN :
       ePromise' = IF onRequest THEN Resolve(ePromise, "null") ELSE ePromise
  /\ epc' = "closed"
  /\ UNCHANGED << eStatus, eChunks >>
  /\ eError' = "timeout"
  /\ FetchFrame
  /\ FetchOnly

\* the discarded body of a refused status runs out; an error on the
\* request meanwhile calls resolve(null) a second time
FetchDiscarded ==
  /\ epc = "discarding"
  /\ ePromise' = Resolve(ePromise, "null")
  /\ epc' = "closed"
  /\ UNCHANGED << eStatus, eChunks, eError >>
  /\ FetchFrame
  /\ FetchOnly

FetchNext ==
  \/ FetchGetThrows
  \/ FetchGet
  \/ FetchConnectionError
  \/ FetchTimeoutBeforeHeaders
  \/ FetchResponse
  \/ FetchData
  \/ FetchEnd
  \/ FetchAborted
  \/ FetchTimeoutAfterHeaders
  \/ FetchDiscarded

InitFetch ==
  /\ FetchInit /\ TrecIdle /\ ReportIdle /\ WrapIdle
  /\ GridIdle /\ BoxIdle /\ CommentIdle /\ PreloadIdle /\ TwiceIdle
  /\ SecIdle /\ FieldIdle /\ HandlerIdle /\ RomanIdle

SpecFetch == InitFetch /\ [][FetchNext]_vars

\* --------------------------------------------------------------- intToRoman
\* part_004: intToRoman and the section header of createPdf that calls it.
\* A numeral is the sequence of its letters. A number is finite or one of
\* NaN, Infinity, -Infinity; a finite one is held as its double, so that
\* the halves Math.floor takes away are there.
MaxNum == 4000
MaxRomanSections == 40

Whole(n) == [ kind |-> "finite", halves |-> 2 * n ]

IsFinite(num) == num.kind = "finite"

\* Math.floor
Floor(num) == num.halves \div 2

\* the table of the values without the subtractive pairs
romans_Additive ==
  << << 1000, << "M" >> >>, << 500, << "D" >> >>, << 100, << "C" >> >>,
     << 50, << "L" >> >>, << 10, << "X" >> >>, << 5, << "V" >> >>,
     << 1, << "I" >> >> >>

romans ==
  << << 1000, << "M" >> >>, << 900, << "C", "M" >> >>, << 500, << "D" >> >>,
     << 400, << "C", "D" >> >>, << 100, << "C" >> >>,
     << 90, << "X", "C" >> >>, << 50, << "L" >> >>, << 40, << "X", "L" >> >>,
     << 10, << "X" >> >>, << 9, << "I", "X" >> >>, << 5, << "V" >> >>,
     << 4, << "I", "V" >> >>, << 1, << "I" >> >> >>

\* for (const [val, sym] of romans) while (n >= val) { res += sym; n -= val }
RECURSIVE RomanLoop(_, _, _)
RomanLoop(k, n, res) ==
  IF k > Len(romans)
  THEN res
  ELSE IF n >= romans[k][1]
       THEN RomanLoop(k, n - romans[k][1], res \o romans[k][2])
       ELSE RomanLoop(k + 1, n, res)

intToRoman(num) ==
  IF ~IsFinite(num) \/ num.halves <= 0
  THEN << >>
  ELSE RomanLoop(1, Floor(num), << >>)

\* intToRoman(sectionIdx + 1) + ' ' + section.name
SectionLabel(sectionIdx, name) ==
  intToRoman(Whole(sectionIdx + 1)) \o << " " >> \o name

RomanInputs ==
  { [ kind |-> "finite", halves |-> h ] : h \in (0 - 4)..(2 * MaxNum) }
  \cup { [ kind |-> k, halves |-> 0 ] : k \in { "NaN", "Infinity", "-Infinity" } }

SectionNames == { << "R", "o", "o", "f" >>, << "X" >>, << >> }

RomanInit ==
  /\ romPc = "called"
  /\ \/ /\ romCaller = "call"
        /\ romNum \in RomanInputs
        /\ romSections = 0
     \/ /\ romCaller = "createPdf"
        /\ romNum = Whole(0)
        /\ romSections \in 0..MaxRomanSections
  /\ romRes = << >>
  /\ romIdx = 0
  /\ romName = << >>
  /\ romLabel = << >>

\* a call of intToRoman on a number
RomanCall ==
  /\ romPc = "called"
  /\ romCaller = "call"
  /\ romRes' = intToRoman(romNum)
  /\ romPc' = "returned"
  /\ UNCHANGED << romCaller, romNum, romSections, romIdx, romName, romLabel >>
  /\ RomanOnly

\* one turn of the section loop of createPdf: the header of the section
\* is drawn
RomanSectionHeader ==
  /\ romPc \in { "called", "labelled" }
  /\ romCaller = "createPdf"
  /\ romIdx < romSections
  /\ \E name \in SectionNames :
       /\ romName' = name
       /\ romLabel' = SectionLabel(romIdx, name)
  /\ romNum' = Whole(romIdx + 1)
  /\ romRes' = intToRoman(Whole(romIdx + 1))
  /\ romIdx' = romIdx + 1
  /\ romPc' = "labelled"
  /\ UNCHANGED << romCaller, romSections >>
  /\ RomanOnly

\* the section loop is over
RomanSectionsDone ==
  /\ romPc \in { "called", "labelled" }
  /\ romCaller = "createPdf"
  /\ romIdx >= romSections
  /\ romPc' = "done"
  /\ UNCHANGED << romCaller, romNum, romRes, romSections, romIdx, romName,
                  romLabel >>
  /\ RomanOnly

RomanNext ==
  \/ RomanCall
  \/ RomanSectionHeader
  \/ RomanSectionsDone

InitRoman ==
  /\ RomanInit /\ TrecIdle /\ ReportIdle /\ WrapIdle
  /\ GridIdle /\ BoxIdle /\ CommentIdle /\ PreloadIdle /\ TwiceIdle
  /\ SecIdle /\ FieldIdle /\ HandlerIdle /\ FetchIdle

SpecRoman == InitRoman /\ [][RomanNext]_vars

\* ------------------------------------------------------------------ claims
\* C1: ensureSpace appends exactly one page, templates it, makes it the
\* current page and sets pos.y to height - 120 exactly when
\* pos.y - neededHeight < FOOTER_BUFFER, also when neededHeight exceeds the
\* usable page height; otherwise pos.y, the current page and the page count
\* are unchanged.
C1_EnsureSpaceBreaksExactlyWhenNeeded ==
  lastEnsure.called =>
    /\ posY = lastEnsure.yAfter
    /\ numPages = lastEnsure.pagesAfter
    /\ currentPage = lastEnsure.curAfter
    /\ IF lastEnsure.yBefore - lastEnsure.needed < Pt(FOOTER_BUFFER)
       THEN /\ numPages = lastEnsure.pagesBefore + 1
            /\ currentPage = numPages
            /\ numPages \in templated
            /\ posY = A4Height - Pt(120)
       ELSE /\ numPages = lastEnsure.pagesBefore
            /\ currentPage = lastEnsure.curBefore
            /\ posY = lastEnsure.yBefore

\* a call whose neededHeight exceeds the usable height, from a cursor that
\* was not at the top of a page: one page was added
C1_Witness ==
  /\ lastEnsure.called
  /\ lastEnsure.needed > UsableHeight
  /\ lastEnsure.yBefore < ContentStartY
  /\ numPages = lastEnsure.pagesBefore + 1

\* C2: right after every ensureSpace(neededHeight), pos.y >= FOOTER_BUFFER, and
\* pos.y - neededHeight >= FOOTER_BUFFER whenever neededHeight does not exceed
\* the usable page height.
C2_CursorAboveFooterAfterEnsure ==
  lastEnsure.called =>
    /\ posY >= Pt(FOOTER_BUFFER)
    /\ lastEnsure.needed <= UsableHeight
         => posY - lastEnsure.needed >= Pt(FOOTER_BUFFER)

\* a call made with the cursor already below the footer buffer, for a height
\* that fits a page
C2_Witness ==
  /\ lastEnsure.called
  /\ lastEnsure.yBefore < Pt(FOOTER_BUFFER)
  /\ lastEnsure.needed <= UsableHeight
  /\ lastEnsure.needed > Pt(200)
  /\ posY - lastEnsure.needed >= Pt(FOOTER_BUFFER)

\* C3: every body draw operation of createPdf has its lowest y at or above
\* FOOTER_BUFFER.
C3_DrawsAboveFooter ==
  \A d \in lastDraws : d.y >= Pt(FOOTER_BUFFER)

\* a caption drawn less than 30 above the footer buffer
C3_Witness ==
  \E d \in lastDraws : d.kind = "caption" /\ d.y < Pt(FOOTER_BUFFER + 30)

\* C4: a row of the grid is never split: ensureSpace(rowHeight + rowSpacing)
\* is called before the row, and every image and caption of the row is drawn
\* on the page that call left current.
C4_RowOnOnePage ==
  \A d \in lastDraws :
    d.kind \in {"image", "caption"} =>
      /\ lastEnsure.called
      /\ d.page = lastEnsure.curAfter
      /\ d.page = currentPage
      /\ d.kind = "image" =>
           lastEnsure.yAfter - d.y + Pt(ROW_SPACING_DEFAULT) <= lastEnsure.needed

\* a row of images of different heights that did not fit and was drawn, whole,
\* on the page added for it
C4_Witness ==
  /\ lastEnsure.called
  /\ lastEnsure.pagesAfter = lastEnsure.pagesBefore + 1
  /\ \E d1, d2 \in lastDraws :
       /\ d1.kind = "image" /\ d2.kind = "image"
       /\ d1.y # d2.y
       /\ d1.page = numPages /\ d2.page = numPages

\* the body pages of the sorted sections from(1-based)..n, in the order the
\* body pass appended them
RECURSIVE BodyPagesFrom(_, _)
BodyPagesFrom(sorted, from) ==
  IF from > Len(sorted) THEN <<>>
  ELSE SectionPages(from, sorted[from].pages) \o BodyPagesFrom(sorted, from + 1)

\* C5: with includeTOC, for every section the starting page number recorded
\* during the body pass is the 1-based position, in the final document, of
\* the first page generated for that section, whatever the number of sections
\* and of TOC pages.
C5_RecordedPageIsFinalPosition ==
  (rpc = "done" /\ includeTOC) =>
    \A j \in 1..Len(sortedSections) :
      /\ recorded[j] \in 1..Len(doc)
      /\ doc[recorded[j]] = [kind |-> "body", sec |-> j, idx |-> 1]

\* C6: for every section the page number its TOC entry shows is the value
\* the body pass recorded for that section (both passes derive the same key
\* and no two sections share a key).
C6_TocPrintsRecordedPage ==
  (rpc = "done" /\ includeTOC) =>
    /\ Len(tocPrinted) = Len(recorded)
    /\ \A j \in 1..Len(recorded) : tocPrinted[j] = recorded[j]

\* C7: after the TOC is spliced in, the final document is the cover page,
\* then all TOC pages in their order, then all body pages in their order;
\* no page is lost, duplicated or reordered.
C7_CoverTocBodyOrder ==
  (rpc = "done" /\ includeTOC) =>
    doc = << [kind |-> "cover", sec |-> 0, idx |-> 1] >>
            \o tocPages \o BodyPagesFrom(sortedSections, 1)

\* a finished report whose table of contents took two pages and one of
\* whose sections took two pages
C7_Witness ==
  /\ rpc = "done"
  /\ includeTOC
  /\ Len(tocPages) >= 2
  /\ \E j \in 1..Len(sortedSections) : sortedSections[j].pages >= 2
  /\ doc[2].kind = "toc" /\ doc[3].kind = "toc"

\* C8: the footer pass runs on the final document: while it runs and after
\* it, the page count is the total it read; when createPdf is done every page,
\* header pages included, carries exactly one stamp, 'Page i of Y' with i its
\* 1-based position and Y the final page count; no stamp exists before.
C8_FooterStampsEveryPageOnce ==
  /\ pc \in {"footer", "done"} => numPages = totalPages
  /\ pc \notin {"footer", "done"} => stamps = <<>>
  /\ pc = "done" =>
       /\ Len(stamps) = numPages
       /\ \A p \in 1..numPages :
            stamps[p] = [page |-> p, i |-> p, of |-> numPages]

\* a finished document with a header page and more than one body page
C8_Witness ==
  /\ pc = "done"
  /\ headerPages >= 1
  /\ numPages >= headerPages + 2
  /\ Len(stamps) = numPages

\* the words of a line or text: its pieces between spaces that are not empty
WordsOf(s) == SelectSeq(Split(s), LAMBDA w : w # <<>>)

RECURSIVE WordsOfLines(_)
WordsOfLines(ls) ==
  IF ls = <<>> THEN <<>> ELSE WordsOf(Head(ls)) \o WordsOfLines(Tail(ls))

\* C9: every line wrapText returns has measured width <= maxWidth, except a
\* line that is a single word itself wider than maxWidth.
C9_LinesFitMaxWidth ==
  wpc = "done" =>
    \A k \in 1..Len(lines) :
      \/ widthOfTextAtSize(lines[k]) <= wMaxWidth
      \/ /\ \A p \in 1..Len(lines[k]) : lines[k][p] # Space
         /\ widthOfTextAtSize(lines[k]) > wMaxWidth

\* a result with a line of one word wider than maxWidth, alone on its
\* line, and another line that fits
C9_Witness ==
  /\ wpc = "done"
  /\ wMaxWidth > 0
  /\ \E k \in 1..Len(lines) :
       /\ \A p \in 1..Len(lines[k]) : lines[k][p] # Space
       /\ widthOfTextAtSize(lines[k]) > wMaxWidth
  /\ \E k \in 1..Len(lines) : widthOfTextAtSize(lines[k]) <= wMaxWidth

\* C10: the lines wrapText returns hold exactly the words of the sanitized
\* input, in input order, each word whole within one line, and no line is
\* empty; empty or white-space-only input gives no lines.
C10_LinesHoldTheWords ==
  wpc = "done" =>
    /\ WordsOfLines(lines) = WordsOf(sanitizeText(wText))
    /\ \A k \in 1..Len(lines) : WordsOf(lines[k]) # <<>>
    /\ (\A p \in 1..Len(wText) : wText[p] \in WhiteSpace) => lines = <<>>

\* a result of two lines for a text whose sanitized form has two spaces in
\* a row, and so an empty piece among the split words
C10_Witness ==
  /\ wpc = "done"
  /\ Len(lines) >= 2
  /\ \E k \in 1..Len(wWords) : wWords[k] = <<>>
  /\ Len(WordsOf(sanitizeText(wText))) >= 2

\* the cell width of the grid the placements were drawn in
PlacedCellW == CellW(Min2(GRID_COLUMNS_DEFAULT, Len(embedded)))

\* C11: every image of the grid is scaled by min(cellW / width,
\* GRID_MAX_CELL_HEIGHT / height, 1): it is never drawn larger than its native
\* size, wider than the cell or taller than GRID_MAX_CELL_HEIGHT, one of
\* these limits is met, it lies horizontally inside its own cell, and the
\* images of a row do not overlap.
C11_ImagesScaledInsideCells ==
  \A i \in 1..Len(placements) :
    LET p == placements[i]
    IN  /\ p.w <= p.img[1] /\ p.h <= p.img[2]
        /\ p.w <= PlacedCellW
        /\ p.h <= GRID_MAX_CELL_HEIGHT
        /\ \/ p.w = p.img[1] /\ p.h = p.img[2]
           \/ p.w = PlacedCellW
           \/ p.h = GRID_MAX_CELL_HEIGHT
        /\ XCell(p.col, PlacedCellW) <= p.x
        /\ p.x + p.w <= XCell(p.col, PlacedCellW) + PlacedCellW
        /\ \A j \in 1..Len(placements) :
             (placements[j].row = p.row /\ p.col < placements[j].col)
               => p.x + p.w <= placements[j].x

\* a row of three: an image kept at its native size, one limited by the cell
\* width and one limited by the cell height
C11_Witness ==
  /\ gpc = "returned"
  /\ \E a, b, c \in 1..Len(placements) :
       /\ placements[a].row = placements[b].row
       /\ placements[b].row = placements[c].row
       /\ placements[a].w = placements[a].img[1]
       /\ placements[b].w = PlacedCellW /\ placements[b].h < GRID_MAX_CELL_HEIGHT
       /\ placements[c].h = GRID_MAX_CELL_HEIGHT /\ placements[c].w < PlacedCellW

\* C12: a comment with N >= 1 embedded photos gets ceil(N / 3) rows, and the
\* k-th embedded photo (0-based, in input order) is drawn once, in row
\* floor(k / 3) at column k mod 3.
C12_RowMajorPlacement ==
  (gpc = "returned" /\ Len(embedded) >= 1) =>
    /\ Len(placements) = Len(embedded)
    /\ RowNumber(placements) = (Len(embedded) + 2) \div 3
    /\ \A i \in 1..Len(placements) :
         /\ placements[i].k = embedded[i].k
         /\ placements[i].img = embedded[i].img
         /\ placements[i].row = (i - 1) \div 3
         /\ placements[i].col = (i - 1) % 3

\* four photos embedded: the fourth opens the second row
C12_Witness ==
  /\ gpc = "returned"
  /\ Len(embedded) = 4
  /\ Len(placements) = 4
  /\ placements[4].row = 1 /\ placements[4].col = 0
  /\ placements[3].row = 0 /\ placements[3].col = 2

\* C13: for every photo the grid places, the drawn width / height ratio
\* differs from the native ratio by at most 1% of the native ratio.
C13_AspectRatioWithinOnePercent ==
  \A i \in 1..Len(placements) :
    LET p == placements[i]
        d == p.w * p.img[2] - p.img[1] * p.h
    IN  /\ p.h > 0
        /\ 100 * (IF d >= 0 THEN d ELSE -d) <= p.img[1] * p.h

\* C14: for a line item with isDeficient set, exactly the D checkbox is
\* checked and I, NI and NP are not, whatever inspectionStatus holds.
C14_DeficientChecksOnlyD ==
  (bpc = "done" /\ Truthy(lineItem.isDeficient)) =>
    /\ createdBoxes = checkboxTypes
    /\ checkedBoxes = {"D"}

\* a deficient line item whose inspectionStatus names another box
C14_Witness ==
  /\ bpc = "done"
  /\ Truthy(lineItem.isDeficient)
  /\ lineItem.inspectionStatus = "I"
  /\ checkedBoxes = {"D"}

\* C15: for every line item exactly one of the four checkboxes is checked:
\* D when isDeficient is set, otherwise the box whose type equals
\* inspectionStatus; never none and never more than one.
C15_ExactlyOneBoxChecked ==
  bpc = "done" =>
    /\ Cardinality(checkedBoxes) = 1
    /\ checkedBoxes = IF Truthy(lineItem.isDeficient) THEN {"D"}
                      ELSE {lineItem.inspectionStatus}

\* C16: a comment whose text, location, tag, photos, videos and
\* recommendation are all empty or absent produces no drawing operation, no
\* page break and no move of the cursor, whatever label and selectedOptions
\* hold.
C16_EmptyCommentLeavesNoTrace ==
  (/\ comment.text = ""
   /\ comment.location \in {"undefined", ""}
   /\ comment.tag = ""
   /\ comment.photos = 0
   /\ comment.videos = 0
   /\ comment.recommendation = "")
  => (cDraws = 0 /\ cPages = 1 /\ curY = cStartY)

\* C17: with a missing or empty section list the generate operation aborts
\* with a reported failure before any page is created, and never reports
\* success. For createPdf: once the section loop has ended without a section,
\* no page exists and the answer is not the success answer.
C17_EmptySectionsAbort ==
  (pc \in {"footer", "done"} /\ itemCount = 0) =>
    (numPages = 0 /\ response # "ok")

\* the input indices (0-based) of the photos that embedded, in input order
OkIndices ==
  SelectSeq([i \in 1..Len(fetched) |-> i - 1], LAMBDA k : fetched[k + 1].ok)

\* the cell width of a grid of n images
CellWFor(n) == CellW(Min2(GRID_COLUMNS_DEFAULT, n))

C19_LayoutServedFromCache ==
  ppc \in {"layout", "done"} =>
    /\ layoutHttp = 0
    /\ imageCache = cacheAtLayout

C21_EarlierEnsureSpaceBreaksWhenNeeded ==
  lastEnsure.called =>
    /\ lastEnsure.yBefore - lastEnsure.needed < Pt(FOOTER_BUFFER)
         => /\ numPages = lastEnsure.pagesBefore + 1
            /\ posY = A4Height - Pt(120)
    /\ lastEnsure.needed <= UsableHeight
         => posY - lastEnsure.needed >= Pt(FOOTER_BUFFER)

\* C22: in the saved document, the number N printed as 'Page N' in the header
\* of every section page is that page's 1-based position, with or without
\* the table of contents, whatever the number of its pages and whatever
\* photos and videos the comments hold.
C22_PrintedPageIsPosition ==
  spc = "done" =>
    \A k \in DOMAIN finalDoc :
      finalDoc[k].kind = "body" => finalDoc[k].printed = k

\* C23: in the grid of three or more media items, the items of one row are
\* drawn on one page, and a new page is started only before the first item
\* of a row is drawn.
C23_GridRowOnOnePage ==
  (spc \in {"grid", "separator", "end", "splice", "done"}
   /\ Len(MediaItems(secComment)) >= 3) =>
    /\ \A a, b \in DOMAIN mediaDrawn :
         mediaDrawn[a].row = mediaDrawn[b].row
           => mediaDrawn[a].page = mediaDrawn[b].page
    /\ \A k \in DOMAIN gridBreaks : gridBreaks[k] = 0

\* C24: every page appended after the cover while the sections are rendered
\* is a full-size page on which createPageHeader has drawn exactly once.
C24_OnlyHeadedBodyPages ==
  \A k \in DOMAIN secPages :
    /\ secPages[k].kind = "body"
    /\ secPages[k].width = A4Width /\ secPages[k].height = A4Height
    /\ secPages[k].headers = 1

\* C25: the one photo of a comment without video is drawn on the page on
\* which textStartY was taken, and its bottom edge is at or above the bottom
\* margin.
C25_SinglePhotoBesideText ==
  (Len(secComment.photos) = 1 /\ secComment.videos = 0) =>
    \A d \in DOMAIN mediaDrawn :
      /\ mediaDrawn[d].page = textStartPage
      /\ mediaDrawn[d].top - mediaDrawn[d].h >= Pt(SectionMargin)

\* the comments the request holds, over all sections and line items
RECURSIVE SumOver(_)
SumOver(ns) == IF ns = <<>> THEN 0 ELSE ns[1] + SumOver(Tail(ns))
CommentsOfSection(sec) ==
  SumOver([i \in DOMAIN sec.lineItems |-> Len(sec.lineItems[i].comments)])
CommentsOfRequest(req) ==
  SumOver([j \in DOMAIN req.sections |-> CommentsOfSection(req.sections[j])])

\* C26: createPdf renders, for each line item, exactly the comments of the
\* input: the finished document holds as many comment blocks as the input
\* holds comments, and a line item without comments has been given none.
C26_OnlyInputCommentsRendered ==
  (run = 1 /\ pc = "done") =>
    Len(SelectSeq(layoutLog, LAMBDA d : d.kind = "commentLabel"))
      = CommentsOfRequest(request)

\* C27: the line item ids being unique within each section, the names of the
\* check box fields created in one createPdf run are pairwise distinct and
\* no duplicate-field error aborts the run.
C27_FieldNamesDistinct ==
  /\ \A a, b \in DOMAIN fieldNames :
       a # b => fieldNames[a] # fieldNames[b]
  /\ fResponse # "500"

\* C28: for every request with at least one section whose cover, section
\* and contents steps all succeed, generateCompleteReportHandler answers
\* with the PDF bytes and not with a 500 error.
C28_HandlerAnswersWithPdf ==
  ( /\ hCaller = "handler"
    /\ hpc = "answered"
    /\ hSections > 0
    /\ hThrown \notin { "cover", "section", "toc" } )
  => hResponse = "pdf"

\* C29: every call of fetchAndEmbedImage ends with its promise resolved,
\* to an embedded image or to null, and never rejected, whatever the
\* request's outcome: once the request is closed the promise is settled.
C29_FetchAlwaysResolves ==
  epc = "closed" => ePromise \in { "image", "null" }

\* the value of a letter
RomanValue(ch) ==
  CASE ch = "M" -> 1000 [] ch = "D" -> 500 [] ch = "C" -> 100
    [] ch = "L" -> 50 [] ch = "X" -> 10 [] ch = "V" -> 5 [] ch = "I" -> 1
    [] OTHER -> 0

\* reading a numeral: a letter before a greater one is taken away
RECURSIVE DecodeFrom(_, _)
DecodeFrom(numeral, i) ==
  IF i > Len(numeral)
  THEN 0
  ELSE ( IF i < Len(numeral)
            /\ RomanValue(numeral[i]) < RomanValue(numeral[i + 1])
         THEN 0 - RomanValue(numeral[i])
         ELSE RomanValue(numeral[i]) )
       + DecodeFrom(numeral, i + 1)

Decode(numeral) == DecodeFrom(numeral, 1)

\* one decimal digit in the letters of its place
RomanDigit(d, one, five, ten) ==
  CASE d = 0 -> << >>
    [] d = 1 -> << one >>
    [] d = 2 -> << one, one >>
    [] d = 3 -> << one, one, one >>
    [] d = 4 -> << one, five >>
    [] d = 5 -> << five >>
    [] d = 6 -> << five, one >>
    [] d = 7 -> << five, one, one >>
    [] d = 8 -> << five, one, one, one >>
    [] d = 9 -> << one, ten >>

\* the numeral of n in subtractive notation, place by place
StandardNumeral(n) ==
  [ i \in 1..(n \div 1000) |-> "M" ]
  \o RomanDigit((n \div 100) % 10, "C", "D", "M")
  \o RomanDigit((n \div 10) % 10, "X", "L", "C")
  \o RomanDigit(n % 10, "I", "V", "X")

\* C30: intToRoman(n) is the subtractive-notation numeral of n for every
\* integer n in 1..3999, and reading it gives n back; it is the empty
\* string for n <= 0 and for a number that is not finite; createPdf labels
\* the section of 0-based index k with intToRoman(k + 1), a space and the
\* section's name.
C30_IntToRomanIsStandard ==
  /\ romPc = "returned" =>
       /\ ( /\ IsFinite(romNum)
            /\ romNum.halves % 2 = 0
            /\ Floor(romNum) \in 1..3999 )
          => /\ romRes = StandardNumeral(Floor(romNum))
             /\ Decode(romRes) = Floor(romNum)
       /\ ( ~IsFinite(romNum) \/ romNum.halves <= 0 ) => romRes = << >>
  /\ romPc = "labelled" =>
       /\ romIdx \in 1..romSections
       /\ romNum = Whole(romIdx)
       /\ romRes = StandardNumeral(romIdx)
       /\ Decode(romRes) = romIdx
       /\ romLabel = romRes \o << " " >> \o romName

\* 1994 has been converted to MCMXCIV
C30_Witness ==
  /\ romPc = "returned"
  /\ romNum = Whole(1994)
  /\ romRes = << "M", "C", "M", "X", "C", "I", "V" >>

====
